---- MODULE Spec2Model ----
(***************************************************************************)
(* Offset reconciliation and parallel completion of one provider:          *)
(* OffsetTracker, completeProviderParallel and saveProviderData of         *)
(* parallel_provider_completion.js (src/unnamed/part_002, lines 325-815).  *)
(*                                                                         *)
(* A game record is represented by its identity key `id` (a natural        *)
(* number); a list of games is a sequence of ids.  The upstream catalog    *)
(* holds record k at position k, so the page at offset o with limit l is   *)
(* <<o+1, ..., o+l>>.                                                      *)
(***************************************************************************)
EXTENDS Integers, Sequences, FiniteSets, TLC

\* ---------------------------------------------------------------- CONFIG
GAMES_PER_REQUEST == 39
MAX_CONCURRENT_REQUESTS == 3
MAX_RETRIES == 20
MAX_EMPTY_ATTEMPTS == 10
\* a failure budget of 4
FailureBudgetOfFour == 3 + 1
\* the literal 3 of `tracker.failed.size >= 3`
MAX_PERMANENT_FAILURES == 3

\* ---------------------------------------------------------------- bounds
\* number of successive invocations of completeProviderParallel
MaxRuns == 3
\* the upstream answers an offset only while that offset has failed at most
\* FlakyBound times; an offset that failed more often keeps failing
FlakyBound == 1
\* provider.totalGames of the four-page provider
WideTotalGames == 140
\* number of results fed by the merge-only specification
MaxFeeds == 3
\* largest record id of the results fed by the merge-only specification
MaxFeedId == 2

\* number of times the process is killed in the specification with crashes
MaxCrashes == 1
\* number of saveProviderData calls that fail in the specification with
\* write failures
MaxSaveFailures == 1

\* the count of fetchers of earlier batches still alive stops at this number
MaxOrphans == 3

\* provider.totalGames of the test provider of the source (three pages)
TEST_TOTAL_GAMES == 100

VARIABLES
    totalGames,          \* provider.totalGames
    invocations,         \* how often the caller invokes completeProviderParallel
    gamesFile,           \* <outputDir>/initial_games.json
    checkpointFile,      \* checkpoints/provider_<slug>_initial.json
    clock,               \* number of saveProviderData calls so far (timestamp)
    run,                 \* number of invocations of completeProviderParallel so far
    pc,                  \* position of the coordinator: "done", "loop", "fetching"
    tracker,             \* the OffsetTracker of the current invocation
    gamesByOffset,       \* Map offset -> games
    totalExistingGames,
    requestCount,
    emptyResponseCount,
    offsets,             \* the batch returned by getNextOffsets
    requests,            \* the promises of the batch
    result,              \* value returned by the last invocation
    persisted,           \* tracker as it was handed to the last saveProviderData
    before,              \* gamesByOffset as it was when the batch was issued
    env,                 \* faults the environment may still inject
    saveFailed,          \* a saveProviderData of this invocation returned false
    emptyStreak,         \* valid payloads without games since the last one with games
    children,            \* per request of the batch: its timer and its child process
    responseData,        \* the raw response handed to parseStakeResponse
    parsed,              \* what parseStakeResponse returned for it
    jsonString,          \* the JSON text the fetcher extracted from an HTML wrapper
    providers,           \* what scanAllProviders returned
    incompleteProviders, \* the providers completeAllProvidersParallel works through
    providerIndex,       \* the loop variable i of completeAllProvidersParallel
    loopPc,              \* position of completeAllProvidersParallel
    active,              \* the provider runs that have started and not yet ended
    completed,           \* let completed
    failed,              \* let failed
    started,             \* the slugs of the provider runs, in the order they started
    outcomes,            \* how each finished provider run ended, in order
    rawFiles,            \* the stake_raw_response_<slug>_<timestamp>.txt files, oldest first
    sequentialGames,     \* let allGames of the sequential completeProvider
    currentOffset,       \* let currentOffset
    attempt,             \* let attempt
    remainingGames,      \* provider.remainingGames, as the scan computed it
    requested,           \* the offset the outer loop asked for in its current iteration
    fetcher,             \* the fetch function that is running
    fetchAttempt,        \* its loop variable attempt
    session,             \* its variable session: <<>> or the session of this attempt
    openSessions,        \* the proxy sessions created and not destroyed
    fetchPc              \* its position

vars == <<totalGames, invocations, gamesFile, checkpointFile, clock, run, pc, tracker,
          gamesByOffset, totalExistingGames, requestCount, emptyResponseCount,
          offsets, requests, result, persisted, before, env, saveFailed,
          emptyStreak, children, responseData, parsed, jsonString,
          providers, incompleteProviders, providerIndex, loopPc, active,
          completed, failed, started, outcomes, rawFiles,
          sequentialGames, currentOffset, attempt, remainingGames, requested,
          fetcher, fetchAttempt, session, openSessions, fetchPc>>

\* the variables of the parser and of the fetcher's extraction
parserVars == <<responseData, parsed, jsonString>>

\* the variables of completeAllProvidersParallel
allProvidersVars == <<providers, incompleteProviders, providerIndex, loopPc,
                      active, completed, failed, started, outcomes>>

\* the variables of the scripts around the parallel driver
\* the variables of the sequential completeProvider
sequentialVars == <<sequentialGames, currentOffset, attempt, remainingGames, requested>>

\* the variables of the two fetch functions
fetcherVars == <<fetcher, fetchAttempt, session, openSessions, fetchPc>>

scriptVars == <<allProvidersVars, rawFiles, sequentialVars, fetcherVars>>

\* no fetch function is running
FetcherIdle ==
    /\ fetcher = "none"
    /\ fetchAttempt = 0
    /\ session = <<>>
    /\ openSessions = {}
    /\ fetchPc = "idle"

\* the sequential completeProvider is not running
SequentialIdle ==
    /\ sequentialGames = <<>>
    /\ currentOffset = 0
    /\ attempt = 0
    /\ remainingGames = 0
    /\ requested = -1

\* completeAllProvidersParallel is not running
AllProvidersIdle ==
    /\ providers = <<>>
    /\ incompleteProviders = <<>>
    /\ providerIndex = 0
    /\ loopPc = "finished"
    /\ active = {}
    /\ completed = 0
    /\ failed = 0
    /\ started = <<>>
    /\ outcomes = <<>>

\* the scripts around the parallel driver are not exercised
ScriptsIdle ==
    /\ AllProvidersIdle
    /\ rawFiles = <<>>
    /\ SequentialIdle
    /\ FetcherIdle

\* no response has been handed to the parser
NotParsed == [threw |-> FALSE, success |-> FALSE, games |-> 0, called |-> FALSE]

\* the parser and the extraction are not exercised
ParserIdle ==
    /\ responseData = <<>>
    /\ parsed = NotParsed
    /\ jsonString = <<>>

\* ---------------------------------------------------------------- helpers
Min(a, b) == IF a < b THEN a ELSE b

SetMax(S) == CHOOSE x \in S : \A y \in S : y <= x

SetMin(S) == CHOOSE x \in S : \A y \in S : x <= y

\* Array.from(set).sort((a, b) => a - b)
RECURSIVE SortAsc(_)
SortAsc(S) == IF S = {} THEN <<>>
              ELSE <<SetMin(S)>> \o SortAsc(S \ {SetMin(S)})

Range(s) == {s[i] : i \in 1..Len(s)}

\* Map.prototype.set
MapSet(m, k, v) == [x \in DOMAIN m \cup {k} |-> IF x = k THEN v ELSE m[x]]

\* the page the upstream holds at (offset, limit)
Page(offset, limit) == [i \in 1..limit |-> offset + i]

\* String(n) of a non-negative integer, as its sequence of decimal digits
RECURSIVE NumToStr(_)
NumToStr(n) == IF n < 10 THEN <<n>> ELSE Append(NumToStr(n \div 10), n % 10)

\* parseInt(s) of a string of decimal digits
RECURSIVE ParseInt(_)
ParseInt(s) == IF Len(s) = 1 THEN s[1]
               ELSE 10 * ParseInt(SubSeq(s, 1, Len(s) - 1)) + s[Len(s)]

\* Object.fromEntries(tracker.retryCount): the keys become strings
ObjectFromEntries(m) ==
    [k \in {NumToStr(o) : o \in DOMAIN m} |-> m[ParseInt(k)]]

\* ---------------------------------------------------------------- OffsetTracker
NewTracker == [completed |-> {}, failed |-> {}, inProgress |-> {},
               retryCount |-> <<>>]

\* this.retryCount.get(offset) || 0
Retries(t, offset) ==
    IF offset \in DOMAIN t.retryCount THEN t.retryCount[offset] ELSE 0

\* markInProgress that records nothing
MarkInProgressNothing(t, offset) == t

markInProgress(t, offset) == [t EXCEPT !.inProgress = @ \cup {offset}]

markCompleted(t, offset) ==
    [t EXCEPT !.inProgress = @ \ {offset}, !.completed = @ \cup {offset}]

\* markFailed that puts the offset in the failed set at its first failure
MarkFailedAtOnce(t, offset) ==
    LET retries == Retries(t, offset) + 1
        t1 == [t EXCEPT !.inProgress = @ \ {offset},
                        !.retryCount = MapSet(@, offset, retries),
                        !.failed = @ \cup {offset}]
    IN  [tracker |-> t1, ret |-> retries < MAX_RETRIES]

\* markFailed that gives up one failure too late
MarkFailedOffByOne(t, offset) ==
    LET retries == Retries(t, offset) + 1
        t1 == [t EXCEPT !.inProgress = @ \ {offset},
                        !.retryCount = MapSet(@, offset, retries)]
    IN  IF retries > MAX_RETRIES
        THEN [tracker |-> [t1 EXCEPT !.failed = @ \cup {offset}], ret |-> FALSE]
        ELSE [tracker |-> t1, ret |-> TRUE]

\* returns the mutated tracker and the return value of markFailed
markFailed(t, offset) ==
    LET retries == Retries(t, offset) + 1
        t1 == [t EXCEPT !.inProgress = @ \ {offset},
                        !.retryCount = MapSet(@, offset, retries)]
    IN  IF retries >= MAX_RETRIES
        THEN [tracker |-> [t1 EXCEPT !.failed = @ \cup {offset}], ret |-> FALSE]
        ELSE [tracker |-> t1, ret |-> TRUE]

isCompleted(t, offset) == offset \in t.completed

isFailed(t, offset) == offset \in t.failed

isInProgress(t, offset) == offset \in t.inProgress

\* canFetch that forgets the failed set
CanFetchIgnoringFailed(t, offset) ==
    ~isCompleted(t, offset) /\ ~isInProgress(t, offset)

\* canFetch that forgets the completed set
CanFetchIgnoringCompleted(t, offset) ==
    ~isFailed(t, offset) /\ ~isInProgress(t, offset)

canFetch(t, offset) ==
    ~isCompleted(t, offset) /\ ~isFailed(t, offset) /\ ~isInProgress(t, offset)

RECURSIVE SequentialScan(_, _)
SequentialScan(t, offset) ==
    IF isCompleted(t, offset)
    THEN SequentialScan(t, offset + GAMES_PER_REQUEST)
    ELSE offset

\* a scan that resumes after the largest completed offset
NextAfterLastCompleted(t) ==
    IF t.completed = {} THEN 0 ELSE SetMax(t.completed) + GAMES_PER_REQUEST

getNextSequentialOffset(t) == SequentialScan(t, 0)

\* first loop of getNextOffsets: `todo` is what is left of the iteration over
\* this.failed; st = [tracker, offsets]
RECURSIVE RetryLoop(_, _, _)
RetryLoop(st, todo, maxOffsets) ==
    IF todo = <<>> \/ Len(st.offsets) >= maxOffsets THEN st
    ELSE LET failedOffset == Head(todo)
             retries == Retries(st.tracker, failedOffset)
         IN  IF retries < MAX_RETRIES /\ canFetch(st.tracker, failedOffset)
             THEN RetryLoop([tracker |-> [st.tracker EXCEPT !.failed = @ \ {failedOffset}],
                             offsets |-> Append(st.offsets, failedOffset)],
                            Tail(todo), maxOffsets)
             ELSE RetryLoop(st, Tail(todo), maxOffsets)

\* second loop of getNextOffsets
RECURSIVE SequentialLoop(_, _, _, _)
SequentialLoop(st, offset, totalGamesArg, maxOffsets) ==
    IF Len(st.offsets) < maxOffsets /\ offset < totalGamesArg
    THEN SequentialLoop(
            IF canFetch(st.tracker, offset)
            THEN [st EXCEPT !.offsets = Append(@, offset)]
            ELSE st,
            offset + GAMES_PER_REQUEST, totalGamesArg, maxOffsets)
    ELSE st

\* returns the mutated tracker and the array of offsets
getNextOffsets(t, currentGames, totalGamesArg, maxOffsets) ==
    LET st1 == RetryLoop([tracker |-> t, offsets |-> <<>>],
                         SortAsc(t.failed), maxOffsets)
    IN  SequentialLoop(st1, getNextSequentialOffset(st1.tracker),
                       totalGamesArg, maxOffsets)

\* getStatus()
getStatus(t) == [completed |-> SortAsc(t.completed),
                 failed |-> SortAsc(t.failed),
                 inProgress |-> SortAsc(t.inProgress)]

\* ---------------------------------------------------------------- files
NoGamesFile == [exists |-> FALSE, timestamp |-> 0, total_games |-> 0,
                games_fetched |-> 0, games |-> <<>>]

NoCheckpointFile ==
    [exists |-> FALSE, timestamp |-> 0, status |-> "in_progress",
     total_games |-> 0, games_fetched |-> 0, is_complete |-> FALSE,
     needs_pagination |-> FALSE, completed_offsets |-> <<>>,
     failed_offsets |-> <<>>, retry_counts |-> <<>>,
     last_successful_offset |-> -1]

\* saveProviderData that records the first completed offset as the last
\* successful one
SaveProviderDataUnordered(total, allGames, t, now) ==
    LET status == getStatus(t)
    IN  [gamesFile |->
            [exists |-> TRUE, timestamp |-> now, total_games |-> total,
             games_fetched |-> Len(allGames), games |-> allGames],
         checkpointFile |->
            [exists |-> TRUE, timestamp |-> now,
             status |-> IF Len(allGames) >= total THEN "completed"
                        ELSE "in_progress",
             total_games |-> total,
             games_fetched |-> Len(allGames),
             is_complete |-> Len(allGames) >= total,
             needs_pagination |-> Len(allGames) < total,
             completed_offsets |-> status.completed,
             failed_offsets |-> status.failed,
             retry_counts |-> ObjectFromEntries(t.retryCount),
             last_successful_offset |->
                IF status.completed = <<>> THEN -1
                ELSE status.completed[1]]]

\* the two files saveProviderData(provider, allGames, tracker) writes at
\* time `now`
saveProviderData(total, allGames, t, now) ==
    LET status == getStatus(t)
    IN  [gamesFile |->
            [exists |-> TRUE, timestamp |-> now, total_games |-> total,
             games_fetched |-> Len(allGames), games |-> allGames],
         checkpointFile |->
            [exists |-> TRUE, timestamp |-> now,
             status |-> IF Len(allGames) >= total THEN "completed"
                        ELSE "in_progress",
             total_games |-> total,
             games_fetched |-> Len(allGames),
             is_complete |-> Len(allGames) >= total,
             needs_pagination |-> Len(allGames) < total,
             completed_offsets |-> status.completed,
             failed_offsets |-> status.failed,
             retry_counts |-> ObjectFromEntries(t.retryCount),
             last_successful_offset |->
                SetMax(Range(status.completed) \cup {-1})]]

\* what saveProviderData was given of the tracker
Snapshot(t) == [completed |-> t.completed, failed |-> t.failed,
                retryCount |-> t.retryCount]

\* ---------------------------------------------------------------- gamesByOffset
\* a loader that keeps full pages only
LoadFullPagesOnly(existingGames) ==
    [o \in {i \in 0..(Len(existingGames) - 1) :
                /\ i % GAMES_PER_REQUEST = 0
                /\ i + GAMES_PER_REQUEST <= Len(existingGames)} |->
        SubSeq(existingGames, o + 1, o + GAMES_PER_REQUEST)]

\* existing games organised by offset, "assuming they're in order"
LoadByOffset(existingGames) ==
    [o \in {i \in 0..(Len(existingGames) - 1) : i % GAMES_PER_REQUEST = 0} |->
        SubSeq(existingGames, o + 1,
               Min(o + GAMES_PER_REQUEST, Len(existingGames)))]

\* for (const games of gamesByOffset.values()) total += games.length
RECURSIVE SumLengths(_, _)
SumLengths(gbo, keys) ==
    IF keys = {} THEN 0
    ELSE LET k == SetMin(keys)
         IN  Len(gbo[k]) + SumLengths(gbo, keys \ {k})

TotalOf(gbo) == SumLengths(gbo, DOMAIN gbo)

\* the map converted to a sequential array, offsets ascending
RECURSIVE ConcatByOffset(_, _)
ConcatByOffset(gbo, sortedOffsets) ==
    IF sortedOffsets = <<>> THEN <<>>
    ELSE gbo[Head(sortedOffsets)] \o ConcatByOffset(gbo, Tail(sortedOffsets))

AllGames(gbo) == ConcatByOffset(gbo, SortAsc(DOMAIN gbo))

\* restore failed offsets and retry counts from the checkpoint, then mark the
\* offsets of the loaded games as completed
RECURSIVE MarkAllCompleted(_, _)
MarkAllCompleted(t, keys) ==
    IF keys = {} THEN t
    ELSE LET k == SetMin(keys)
         IN  MarkAllCompleted(markCompleted(t, k), keys \ {k})

RestoreTracker(cp, gbo) ==
    LET t0 == NewTracker
        t1 == IF cp.exists
              THEN [t0 EXCEPT
                      !.failed = @ \cup Range(cp.failed_offsets),
                      !.retryCount = [o \in {ParseInt(k) : k \in DOMAIN cp.retry_counts}
                                        |-> cp.retry_counts[NumToStr(o)]]]
              ELSE t0
    IN  MarkAllCompleted(t1, DOMAIN gbo)

\* ---------------------------------------------------------------- the run
NoResult == [success |-> FALSE, totalGames |-> 0, requestsMade |-> 0,
             isComplete |-> FALSE]

\* nothing on disk, no invocation yet
InitLocals ==
    /\ gamesFile = NoGamesFile
    /\ checkpointFile = NoCheckpointFile
    /\ clock = 0
    /\ run = 0
    /\ pc = "done"
    /\ tracker = NewTracker
    /\ gamesByOffset = <<>>
    /\ totalExistingGames = 0
    /\ requestCount = 0
    /\ emptyResponseCount = 0
    /\ offsets = <<>>
    /\ requests = <<>>
    /\ result = NoResult
    /\ persisted = Snapshot(NewTracker)
    /\ before = <<>>
    /\ saveFailed = FALSE
    /\ emptyStreak = 0
    /\ children = <<>>
    /\ ParserIdle
    /\ ScriptsIdle

\* no fault left to inject, and no fetcher of an earlier batch alive
NoFaults == [crashesLeft |-> 0, saveFailuresLeft |-> 0, orphans |-> 0]

\* the test provider, invoked MaxRuns times in succession
Init ==
    /\ totalGames = TEST_TOTAL_GAMES
    /\ invocations = MaxRuns
    /\ env = NoFaults
    /\ InitLocals

\* a provider of four pages, invoked once
InitWide ==
    /\ totalGames = WideTotalGames
    /\ invocations = 1
    /\ env = NoFaults
    /\ InitLocals

\* the test provider, invoked twice, the process killed up to MaxCrashes times
InitCrash ==
    /\ totalGames = TEST_TOTAL_GAMES
    /\ invocations = 2
    /\ env = [NoFaults EXCEPT !.crashesLeft = MaxCrashes]
    /\ InitLocals

\* the test provider, invoked once, up to MaxSaveFailures saves failing
InitDisk ==
    /\ totalGames = TEST_TOTAL_GAMES
    /\ invocations = 1
    /\ env = [NoFaults EXCEPT !.saveFailuresLeft = MaxSaveFailures]
    /\ InitLocals

\* where a saveProviderData call can throw, given how many failures the
\* environment may still inject: not at all, before the games file is
\* written, or between the games file and the checkpoint
Faults(left) == IF left > 0 THEN {"none", "games", "checkpoint"} ELSE {"none"}

\* the files on disk, with the tracker last written to the checkpoint
OnDisk == [gamesFile |-> gamesFile, checkpointFile |-> checkpointFile,
           persisted |-> persisted]

\* saveProviderData with its try/catch: what is on disk after the call on
\* the files `cur`, and the value returned
SaveWithFault(cur, total, allGames, t, now, fault) ==
    LET w == saveProviderData(total, allGames, t, now)
    IN  [gamesFile |-> IF fault = "games" THEN cur.gamesFile ELSE w.gamesFile,
         checkpointFile |-> IF fault = "none" THEN w.checkpointFile
                            ELSE cur.checkpointFile,
         persisted |-> IF fault = "none" THEN Snapshot(t) ELSE cur.persisted,
         allGames |-> allGames,
         ok |-> fault = "none"]

\* the final save and the return of completeProviderParallel, with the
\* locals gbo, t, made, at time `now`, the files `cur` on disk, and `used`
\* failed saves earlier in the same step
Finish(gbo, t, made, now, cur, used) ==
    \E fault \in Faults(env.saveFailuresLeft - used) :
        \E w \in {SaveWithFault(cur, totalGames, AllGames(gbo), t, now + 1,
                                fault)} :
        LET finalGames == w.allGames
        IN  /\ gamesFile' = w.gamesFile
            /\ checkpointFile' = w.checkpointFile
            /\ persisted' = w.persisted
            /\ clock' = now + 1
            /\ saveFailed' = (saveFailed \/ used > 0 \/ ~w.ok)
            /\ env' = [env EXCEPT !.saveFailuresLeft =
                            @ - used - (IF w.ok THEN 0 ELSE 1)]
            /\ result' = [success |-> TRUE, totalGames |-> Len(finalGames),
                          requestsMade |-> made,
                          isComplete |-> Len(finalGames) >= totalGames]
            /\ pc' = "done"

\* the check with > for >=
AlreadyCompleteStrict(total, totalGamesArg) == total > totalGamesArg

\* the check "if already complete" on the loaded games
AlreadyComplete(total, totalGamesArg) == total >= totalGamesArg

\* completeProviderParallel from its call to the first evaluation of the
\* loop condition
StartRun ==
    /\ UNCHANGED <<parserVars, scriptVars>>
    /\ pc = "done"
    /\ run < invocations
    /\ run' = run + 1
    /\ LET existingGames == IF gamesFile.exists THEN gamesFile.games ELSE <<>>
           gbo == LoadByOffset(existingGames)
           total == TotalOf(gbo)
       IN  /\ gamesByOffset' = gbo
           /\ before' = gbo
           /\ totalExistingGames' = total
           /\ requestCount' = 0
           /\ emptyResponseCount' = 0
           /\ emptyStreak' = 0
           /\ saveFailed' = FALSE
           /\ offsets' = <<>>
           /\ requests' = <<>>
           /\ children' = <<>>
           /\ IF AlreadyComplete(total, totalGames)
              THEN /\ result' = [success |-> TRUE, totalGames |-> total,
                                 requestsMade |-> 0, isComplete |-> TRUE]
                   /\ pc' = "done"
                   /\ tracker' = NewTracker
              ELSE /\ tracker' = RestoreTracker(checkpointFile, gbo)
                   /\ pc' = "loop"
                   /\ result' = NoResult
    /\ UNCHANGED <<totalGames, invocations, gamesFile, checkpointFile, clock,
                   persisted, env>>

\* the child process spawned for a request and the 90 s timer set for it
NewChild == [timer |-> "armed", process |-> "running"]

\* the children of the batch whose kill was sent and whose fetcher has not
\* been seen to end
StillAlive(ch) == Cardinality({i \in DOMAIN ch : ch[i].process = "killed"})

\* a request that always asks for a full page
NewRequestFullPage(offset, id) ==
    [offset |-> offset,
     limit |-> GAMES_PER_REQUEST,
     requestId |-> id,
     status |-> "pending",
     result |-> <<>>,
     value |-> [offset |-> offset, games |-> <<>>, success |-> FALSE,
                canRetry |-> <<>>]]

\* the promise of one request of the batch, not yet settled
NewRequest(offset, id) ==
    [offset |-> offset,
     limit |-> Min(GAMES_PER_REQUEST, totalGames - offset),
     requestId |-> id,
     status |-> "pending",
     result |-> <<>>,
     value |-> [offset |-> offset, games |-> <<>>, success |-> FALSE,
                canRetry |-> <<>>]]

RECURSIVE MarkAllInProgress(_, _)
MarkAllInProgress(t, offs) ==
    IF offs = <<>> THEN t
    ELSE MarkAllInProgress(markInProgress(t, Head(offs)), Tail(offs))

\* one evaluation of the loop condition, up to the await of the batch, the
\* next evaluation or the return
LoopStep ==
    /\ UNCHANGED <<parserVars, scriptVars>>
    /\ pc = "loop"
    /\ UNCHANGED <<totalGames, invocations, run, gamesByOffset,
                   totalExistingGames, emptyResponseCount, emptyStreak>>
    /\ IF ~(totalExistingGames < totalGames
            /\ emptyResponseCount < MAX_EMPTY_ATTEMPTS)
       THEN /\ Finish(gamesByOffset, tracker, requestCount, clock, OnDisk, 0)
            /\ UNCHANGED <<tracker, requestCount, offsets, requests, before,
                           children>>
       ELSE IF Cardinality(tracker.failed) >= MAX_PERMANENT_FAILURES
       THEN /\ Finish(gamesByOffset, tracker, requestCount, clock, OnDisk, 0)
            /\ UNCHANGED <<tracker, requestCount, offsets, requests, before,
                           children>>
       ELSE \E next \in {getNextOffsets(tracker, totalExistingGames, totalGames,
                                        MAX_CONCURRENT_REQUESTS)} :
            LET hasRetryableFailures ==
                    \E o \in next.tracker.failed :
                        Retries(next.tracker, o) < MAX_RETRIES
            IN  IF Len(next.offsets) = 0
                THEN IF hasRetryableFailures \/ next.tracker.inProgress # {}
                     THEN \* wait and continue
                          /\ tracker' = next.tracker
                          /\ offsets' = next.offsets
                          /\ UNCHANGED <<gamesFile, checkpointFile, clock,
                                         persisted, result, pc, requestCount,
                                         requests, before, env, saveFailed,
                                         children>>
                     ELSE /\ Finish(gamesByOffset, next.tracker, requestCount,
                                     clock, OnDisk, 0)
                          /\ tracker' = next.tracker
                          /\ offsets' = next.offsets
                          /\ UNCHANGED <<requestCount, requests, before,
                                         children>>
                ELSE /\ tracker' = MarkAllInProgress(next.tracker, next.offsets)
                     /\ offsets' = next.offsets
                     /\ requests' = [i \in 1..Len(next.offsets) |->
                                        NewRequest(next.offsets[i], requestCount + i)]
                     /\ children' = [i \in 1..Len(next.offsets) |-> NewChild]
                     /\ requestCount' = requestCount + Len(next.offsets)
                     /\ pc' = "fetching"
                     /\ before' = gamesByOffset
                     /\ env' = [env EXCEPT !.orphans =
                                    Min(MaxOrphans, @ + StillAlive(children))]
                     /\ UNCHANGED <<gamesFile, checkpointFile, clock, persisted,
                                    result, saveFailed>>

\* ---------------------------------------------------------------- one request
\* the configuration that treats a page without games as a failure
SkipMissingGamesOff == FALSE

SKIP_MISSING_GAMES == TRUE

\* what executeSingleRequest can resolve with for (offset, limit): a parse
\* failure, a valid payload without games, the page of the catalog
Responses(offset, limit) ==
    { [success |-> FALSE, games |-> <<>>],
      [success |-> TRUE, games |-> <<>>],
      [success |-> TRUE, games |-> Page(offset, limit)] }

\* the continuation of the request's async function after
\* executeSingleRequest resolved with res
OnResolved(i, res) ==
    LET offset == requests[i].offset
    IN  IF res.success /\ Len(res.games) > 0
        THEN /\ tracker' = markCompleted(tracker, offset)
             /\ requests' = [requests EXCEPT ![i].status = "fulfilled",
                    ![i].result = <<res>>,
                    ![i].value = [offset |-> offset, games |-> res.games,
                                  success |-> TRUE, canRetry |-> <<>>]]
             /\ UNCHANGED emptyResponseCount
             /\ emptyStreak' = 0
        ELSE /\ emptyResponseCount' = emptyResponseCount + 1
             /\ emptyStreak' = IF res.success THEN emptyStreak + 1
                               ELSE emptyStreak
             /\ IF SKIP_MISSING_GAMES
                THEN /\ tracker' = markCompleted(tracker, offset)
                     /\ requests' = [requests EXCEPT ![i].status = "fulfilled",
                            ![i].result = <<res>>,
                            ![i].value = [offset |-> offset, games |-> <<>>,
                                          success |-> TRUE, canRetry |-> <<>>]]
                ELSE /\ tracker' = markFailed(tracker, offset).tracker
                     /\ requests' = [requests EXCEPT ![i].status = "fulfilled",
                            ![i].result = <<res>>,
                            ![i].value = [offset |-> offset, games |-> <<>>,
                                          success |-> FALSE, canRetry |-> <<>>]]

\* a request without the catch branch: its promise rejects and the tracker
\* is not told
OnRejectedUncaught(i) ==
    /\ requests' = [requests EXCEPT ![i].status = "rejected"]
    /\ UNCHANGED <<tracker, emptyResponseCount, emptyStreak>>

\* a catch branch that counts the rejection as an empty response too
OnRejectedCountingEmpty(i) ==
    LET offset == requests[i].offset
        mf == markFailed(tracker, offset)
    IN  /\ tracker' = mf.tracker
        /\ requests' = [requests EXCEPT ![i].status = "fulfilled",
               ![i].value = [offset |-> offset, games |-> <<>>,
                             success |-> FALSE, canRetry |-> <<mf.ret>>]]
        /\ emptyResponseCount' = emptyResponseCount + 1
        /\ UNCHANGED emptyStreak

\* the catch branch: executeSingleRequest rejected (timeout, exit code,
\* no response file)
OnRejected(i) ==
    LET offset == requests[i].offset
        mf == markFailed(tracker, offset)
    IN  /\ tracker' = mf.tracker
        /\ requests' = [requests EXCEPT ![i].status = "fulfilled",
               ![i].value = [offset |-> offset, games |-> <<>>,
                             success |-> FALSE, canRetry |-> <<mf.ret>>]]
        /\ UNCHANGED <<emptyResponseCount, emptyStreak>>

SettleResolved ==
    /\ UNCHANGED <<parserVars, scriptVars>>
    /\ pc = "fetching"
    /\ \E i \in DOMAIN requests :
        /\ requests[i].status = "pending"
        /\ Retries(tracker, requests[i].offset) <= FlakyBound
        /\ \E res \in Responses(requests[i].offset, requests[i].limit) :
              OnResolved(i, res)
        /\ children' = [children EXCEPT ![i].process = "closed"]
    /\ UNCHANGED <<totalGames, invocations, gamesFile, checkpointFile, clock,
                   run, pc, gamesByOffset, totalExistingGames, requestCount,
                   offsets, result, persisted, before, env, saveFailed>>

SettleRejected ==
    /\ UNCHANGED <<parserVars, scriptVars>>
    /\ pc = "fetching"
    /\ \E i \in DOMAIN requests :
        /\ requests[i].status = "pending"
        /\ OnRejected(i)
        /\ children' = [children EXCEPT ![i].process = "closed"]
    /\ UNCHANGED <<totalGames, invocations, gamesFile, checkpointFile, clock,
                   run, pc, gamesByOffset, totalExistingGames, requestCount,
                   offsets, result, persisted, before, env, saveFailed>>

\* a promise that could be settled again after it has settled
CanSettleAgain(i) == TRUE

\* resolve and reject act on a promise that has not settled, and are ignored
\* afterwards
CanSettle(i) == requests[i].status = "pending"

\* the 90 s timer of request i fires: process.kill(), then reject
TimerFires ==
    /\ UNCHANGED <<parserVars, scriptVars>>
    /\ \E i \in DOMAIN children :
        /\ children[i].timer = "armed"
        /\ children' = [children EXCEPT
                ![i].timer = "fired",
                ![i].process = IF @ = "running" THEN "killed" ELSE @]
        /\ IF CanSettle(i)
           THEN OnRejected(i)
           ELSE UNCHANGED <<tracker, requests, emptyResponseCount, emptyStreak>>
    /\ UNCHANGED <<totalGames, invocations, gamesFile, checkpointFile, clock,
                   run, pc, gamesByOffset, totalExistingGames, requestCount,
                   offsets, result, persisted, before, env, saveFailed>>

\* the close event of a child that the timer killed: code is not 0 and the
\* handler calls reject
ChildCloses ==
    /\ UNCHANGED <<parserVars, scriptVars>>
    /\ \E i \in DOMAIN children :
        /\ children[i].process = "killed"
        /\ children' = [children EXCEPT ![i].process = "closed"]
        /\ IF CanSettle(i)
           THEN OnRejected(i)
           ELSE UNCHANGED <<tracker, requests, emptyResponseCount, emptyStreak>>
    /\ UNCHANGED <<totalGames, invocations, gamesFile, checkpointFile, clock,
                   run, pc, gamesByOffset, totalExistingGames, requestCount,
                   offsets, result, persisted, before, env, saveFailed>>

\* a fetcher of an earlier batch, left alive by the kill of its parent, ends
OrphanExits ==
    /\ UNCHANGED <<parserVars, scriptVars>>
    /\ env.orphans > 0
    /\ env' = [env EXCEPT !.orphans = @ - 1]
    /\ UNCHANGED <<totalGames, invocations, gamesFile, checkpointFile, clock,
                   run, pc, tracker, gamesByOffset, totalExistingGames,
                   requestCount, emptyResponseCount, offsets, requests, result,
                   persisted, before, saveFailed, emptyStreak, children>>

\* ---------------------------------------------------------------- after the batch
\* results.forEach(...): st = [gbo, newGamesAdded, empty]
\* a merge that appends to the entry of the offset
MergeAppending(gbo, offset, games) ==
    MapSet(gbo, offset,
           IF offset \in DOMAIN gbo THEN gbo[offset] \o games ELSE games)

\* a merge that keeps the page just received only
MergeForgetting(gbo, offset, games) == [o \in {offset} |-> games]

\* gamesByOffset.set(offset, requestResult.games)
MergeInto(gbo, offset, games) == MapSet(gbo, offset, games)

\* a merge that stops at the first result that brought no games
RECURSIVE MergeUntilFailure(_, _, _, _)
MergeUntilFailure(st, offs, reqs, index) ==
    IF index > Len(reqs) THEN st
    ELSE LET offset == offs[index]
             requestResult == reqs[index].value
         IN  IF reqs[index].status = "fulfilled"
                /\ requestResult.success /\ Len(requestResult.games) > 0
             THEN MergeUntilFailure(
                    [gbo |-> MergeInto(st.gbo, offset, requestResult.games),
                     newGamesAdded |-> st.newGamesAdded + Len(requestResult.games),
                     empty |-> 0],
                    offs, reqs, index + 1)
             ELSE st

RECURSIVE MergeResults(_, _, _, _)
MergeResults(st, offs, reqs, index) ==
    IF index > Len(reqs) THEN st
    ELSE LET offset == offs[index]
             requestResult == reqs[index].value
         IN  IF reqs[index].status = "fulfilled"
                /\ requestResult.success /\ Len(requestResult.games) > 0
             THEN MergeResults(
                    [gbo |-> MergeInto(st.gbo, offset, requestResult.games),
                     newGamesAdded |-> st.newGamesAdded + Len(requestResult.games),
                     empty |-> 0],
                    offs, reqs, index + 1)
             ELSE MergeResults(st, offs, reqs, index + 1)

\* a combinator that resolves with the first promise that settles
AnySettled(reqs) == \E i \in DOMAIN reqs : reqs[i].status = "fulfilled"

\* Promise.allSettled(requests) resolves
AllSettled(reqs) == \A i \in DOMAIN reqs : reqs[i].status # "pending"

\* from the resolution of Promise.allSettled to the delay between batches,
\* or to the return when the provider is complete
ProcessResults ==
    /\ UNCHANGED <<parserVars, scriptVars>>
    /\ pc = "fetching"
    /\ AllSettled(requests)
    /\ \E m \in {MergeResults([gbo |-> gamesByOffset, newGamesAdded |-> 0,
                                empty |-> emptyResponseCount],
                               offsets, requests, 1)} :
           /\ gamesByOffset' = m.gbo
           /\ emptyResponseCount' = m.empty
           /\ IF m.newGamesAdded > 0
              THEN \E fault \in Faults(env.saveFailuresLeft) :
                   \E w \in {SaveWithFault(OnDisk, totalGames, AllGames(m.gbo),
                                           tracker, clock + 1, fault)} :
                   LET total == TotalOf(m.gbo)
                       used == IF w.ok THEN 0 ELSE 1
                   IN  /\ totalExistingGames' = total
                       /\ IF total >= totalGames
                          THEN Finish(m.gbo, tracker, requestCount, clock + 1,
                                      w, used)
                          ELSE /\ gamesFile' = w.gamesFile
                               /\ checkpointFile' = w.checkpointFile
                               /\ persisted' = w.persisted
                               /\ clock' = clock + 1
                               /\ saveFailed' = (saveFailed \/ ~w.ok)
                               /\ env' = [env EXCEPT !.saveFailuresLeft = @ - used]
                               /\ pc' = "loop"
                               /\ UNCHANGED result
              ELSE /\ pc' = "loop"
                   /\ UNCHANGED <<totalExistingGames, gamesFile, checkpointFile,
                                  clock, persisted, result, env, saveFailed>>
    /\ UNCHANGED <<totalGames, invocations, run, tracker, requestCount, offsets,
                   requests, before, emptyStreak, children>>

\* the process is killed while completeProviderParallel runs: what is in
\* memory is lost, the files stay as the last write left them
Crash ==
    /\ UNCHANGED <<parserVars, scriptVars>>
    /\ pc # "done"
    /\ env.crashesLeft > 0
    /\ pc' = "done"
    /\ env' = [env EXCEPT !.crashesLeft = @ - 1]
    /\ UNCHANGED <<totalGames, invocations, gamesFile, checkpointFile, clock,
                   run, tracker, gamesByOffset, totalExistingGames,
                   requestCount, emptyResponseCount, offsets, requests, result,
                   persisted, before, saveFailed, emptyStreak, children>>

Next == StartRun \/ LoopStep \/ SettleResolved \/ SettleRejected \/ ProcessResults

Spec == Init /\ [][Next]_vars

SpecWide == InitWide /\ [][Next]_vars

\* the process is killed inside saveProviderData after a batch, between the
\* write of the games file and the write of the checkpoint
CrashInSave ==
    /\ UNCHANGED <<parserVars, scriptVars>>
    /\ pc = "fetching"
    /\ AllSettled(requests)
    /\ env.crashesLeft > 0
    /\ LET m == MergeResults([gbo |-> gamesByOffset, newGamesAdded |-> 0,
                              empty |-> emptyResponseCount],
                             offsets, requests, 1)
           w == SaveWithFault(OnDisk, totalGames, AllGames(m.gbo), tracker,
                              clock + 1, "checkpoint")
       IN  /\ m.newGamesAdded > 0
           /\ gamesByOffset' = m.gbo
           /\ emptyResponseCount' = m.empty
           /\ totalExistingGames' = TotalOf(m.gbo)
           /\ gamesFile' = w.gamesFile
    /\ clock' = clock + 1
    /\ pc' = "done"
    /\ env' = [env EXCEPT !.crashesLeft = @ - 1]
    /\ UNCHANGED <<totalGames, invocations, checkpointFile, run, tracker,
                   requestCount, offsets, requests, result, persisted, before,
                   saveFailed, emptyStreak, children>>

SpecDisk == InitDisk /\ [][Next]_vars

NextCrash == Next \/ Crash \/ CrashInSave

SpecCrash == InitCrash /\ [][NextCrash]_vars

\* the test provider, invoked once, with the timers and the close events of
\* the children as steps of their own
InitTimeout ==
    /\ totalGames = TEST_TOTAL_GAMES
    /\ invocations = 1
    /\ env = NoFaults
    /\ InitLocals

NextTimeout == Next \/ TimerFires \/ ChildCloses \/ OrphanExits

SpecTimeout == InitTimeout /\ [][NextTimeout]_vars

\* the test provider, invoked twice
InitLive ==
    /\ totalGames = TEST_TOTAL_GAMES
    /\ invocations = 2
    /\ env = NoFaults
    /\ InitLocals

\* a step of a run in progress: in the loop only LoopStep can be taken,
\* during a batch only the settling of a pending request and, once all have
\* settled, the resolution of Promise.allSettled
RunStep == LoopStep \/ SettleResolved \/ SettleRejected \/ ProcessResults

\* the event loop runs what can run, and every request settles
SpecLive == InitLive /\ [][Next]_vars /\ WF_vars(RunStep)

\* ---------------------------------------------------------------- merge only
\* record lists of the results fed to the merge: ids 1..MaxFeedId, at most
\* two records, no id twice in one list
FeedGames ==
    {<<>>} \cup {<<a>> : a \in 1..MaxFeedId}
           \cup {p \in (1..MaxFeedId) \X (1..MaxFeedId) : p[1] # p[2]}

FeedOffsets == {0, GAMES_PER_REQUEST}

\* a request of the batch as its async function fulfils it
Fulfilled(offset, id, games, success) ==
    [NewRequest(offset, id) EXCEPT
        !.status = "fulfilled",
        !.result = <<[success |-> success, games |-> games]>>,
        !.value = [offset |-> offset, games |-> games, success |-> success,
                   canRetry |-> <<>>]]

InitMerge ==
    /\ totalGames = TEST_TOTAL_GAMES
    /\ invocations = 1
    /\ gamesFile = NoGamesFile
    /\ checkpointFile = NoCheckpointFile
    /\ clock = 0
    /\ run = 1
    /\ pc = "loop"
    /\ tracker = NewTracker
    /\ gamesByOffset = <<>>
    /\ totalExistingGames = 0
    /\ requestCount = 0
    /\ emptyResponseCount = 0
    /\ offsets = <<>>
    /\ requests = <<>>
    /\ result = NoResult
    /\ persisted = Snapshot(NewTracker)
    /\ before = <<>>
    /\ env = NoFaults
    /\ saveFailed = FALSE
    /\ emptyStreak = 0
    /\ children = <<>>
    /\ ParserIdle
    /\ ScriptsIdle

\* a batch of one request that settled with any result, for any offset,
\* whether or not the map already holds that offset
FeedBatch ==
    /\ UNCHANGED <<parserVars, scriptVars>>
    /\ pc = "loop"
    /\ requestCount < MaxFeeds
    /\ \E o \in FeedOffsets, g \in FeedGames, ok \in BOOLEAN :
        /\ (Len(g) > 0 => ok)
        /\ offsets' = <<o>>
        /\ requests' = <<Fulfilled(o, requestCount + 1, g, ok)>>
        /\ children' = <<[NewChild EXCEPT !.process = "closed"]>>
    /\ requestCount' = requestCount + 1
    /\ before' = gamesByOffset
    /\ pc' = "fetching"
    /\ UNCHANGED <<totalGames, invocations, gamesFile, checkpointFile, clock,
                   run, tracker, gamesByOffset, totalExistingGames,
                   emptyResponseCount, result, persisted, env, saveFailed,
                   emptyStreak>>

NextMerge == FeedBatch \/ ProcessResults

SpecMerge == InitMerge /\ [][NextMerge]_vars

\* ================================================================ properties
Pending(i) == requests[i].status = "pending"

\* request i of the last batch brought games that were merged
Merged(i) ==
    /\ requests[i].status = "fulfilled"
    /\ requests[i].value.success
    /\ Len(requests[i].value.games) > 0

\* C1: in every reachable state of a run, resumed runs included, the tracker
\* sets completed, failed and inProgress are pairwise disjoint.
OffsetStatesDisjoint ==
    /\ tracker.completed \cap tracker.failed = {}
    /\ tracker.completed \cap tracker.inProgress = {}
    /\ tracker.failed \cap tracker.inProgress = {}

\* C2: the batch getNextOffsets returns holds at most MAX_CONCURRENT_REQUESTS
\* offsets, pairwise distinct, none of them completed, failed or in progress
\* in the tracker the call was made on.
NextBatchFetchable ==
    [][(pc = "loop" /\ pc' = "fetching") =>
        /\ Len(offsets') <= 3
        /\ \A i, j \in 1..Len(offsets') : i # j => offsets'[i] # offsets'[j]
        /\ \A i \in 1..Len(offsets') :
            /\ offsets'[i] \notin tracker.completed
            /\ offsets'[i] \notin tracker.failed
            /\ offsets'[i] \notin tracker.inProgress]_vars

NextBatchWitness ==
    /\ pc = "fetching"
    /\ \A i \in DOMAIN requests : Pending(i)
    /\ Len(offsets) >= 2
    /\ tracker.completed # {}
    /\ tracker.failed # {}

\* C3: no offset is in flight in two fetches at once: a fetch is issued only
\* for an offset that is not in progress, and the offset of a fetch that has
\* not settled is in progress.
NoOffsetTwiceInFlight ==
    [][/\ \A i, j \in DOMAIN requests' :
            (i # j /\ requests'[i].status = "pending"
                   /\ requests'[j].status = "pending")
                => requests'[i].offset # requests'[j].offset
       /\ \A i \in DOMAIN requests' :
            requests'[i].status = "pending"
                => requests'[i].offset \in tracker'.inProgress
       /\ (pc = "loop" /\ pc' = "fetching") =>
            \A i \in DOMAIN requests' :
                requests'[i].offset \notin tracker.inProgress]_vars

InFlightWitness ==
    /\ pc = "fetching"
    /\ Len(requests) = 3
    /\ \E i, j \in DOMAIN requests :
        /\ i # j /\ Pending(i) /\ Pending(j)
        /\ \E k \in DOMAIN requests :
            /\ ~Pending(k)
            /\ requests[k].offset \notin tracker.inProgress

\* C4: within a run a completed offset stays completed, whatever its record
\* count and also when it was marked from saved games; no batch contains it
\* and no fetch for it is pending.
CompletedIsTerminal ==
    [][/\ (run' = run => tracker.completed \subseteq tracker'.completed)
       /\ \A i \in DOMAIN requests' :
            requests'[i].status = "pending"
                => requests'[i].offset \notin tracker'.completed
       /\ (pc = "loop" /\ pc' = "fetching") =>
            \A i \in 1..Len(offsets') : offsets'[i] \notin tracker.completed]_vars

\* a batch issued in a resumed run while one offset is completed from the
\* saved games and another was completed with 0 games in this run
CompletedWitness ==
    /\ pc = "fetching"
    /\ run = 2
    /\ \A i \in DOMAIN requests : Pending(i)
    /\ \E o \in tracker.completed : o \in DOMAIN gamesByOffset
    /\ \E o \in tracker.completed : o \notin DOMAIN gamesByOffset

\* C5: a failed fetch increments the retry count of its offset by exactly
\* one; markFailed returns true exactly when the new count is below 20; the
\* offset is in the failed set exactly when its count has reached 20, and a
\* failed offset is never fetched again.
MarkFailedCounts ==
    [][/\ (pc = "fetching" /\ pc' = "fetching") =>
            \A i \in DOMAIN requests :
                (Pending(i) /\ requests'[i].status = "fulfilled"
                            /\ requests'[i].value.canRetry # <<>>) =>
                    LET o == requests[i].offset
                    IN  /\ Retries(tracker', o) = Retries(tracker, o) + 1
                        /\ requests'[i].value.canRetry
                                = <<Retries(tracker', o) < 20>>
                        /\ (o \in tracker'.failed) <=> (Retries(tracker', o) = 20)
       /\ \A o \in tracker'.failed : Retries(tracker', o) = 20
       /\ \A i \in DOMAIN requests' :
            requests'[i].status = "pending"
                => requests'[i].offset \notin tracker'.failed]_vars

\* the 20th failure of an offset, while a later batch is in flight
MarkFailedWitness ==
    /\ pc = "fetching"
    /\ tracker.failed # {}
    /\ \E i \in DOMAIN requests :
        /\ ~Pending(i)
        /\ requests[i].value.canRetry = <<FALSE>>
        /\ requests[i].offset \in tracker.failed
        /\ Retries(tracker, requests[i].offset) = 20

\* C6: once 3 offsets are permanently failed the run issues no further fetch
\* and the next evaluation of the loop ends it; it returns isComplete = false
\* when the target count is not met.
FailureBudgetAborts ==
    [][(Cardinality(tracker.failed) >= 3 /\ pc # "done") =>
        /\ requestCount' = requestCount
        /\ pc = "loop" =>
            /\ pc' = "done"
            /\ result'.requestsMade = requestCount
            /\ (totalExistingGames < totalGames => ~result'.isComplete)]_vars

\* aborted with 3 failed offsets while a fourth offset was still fetchable
FailureBudgetWitness ==
    /\ pc = "done"
    /\ run = 1
    /\ Cardinality(tracker.failed) = 3
    /\ ~result.isComplete
    /\ \E k \in 0..3 :
        /\ k * GAMES_PER_REQUEST < totalGames
        /\ canFetch(tracker, k * GAMES_PER_REQUEST)

\* C7: an invocation that finds at least totalGames records in the games file
\* makes no request, leaves both files as they are and returns isComplete
\* with requestsMade = 0; a repeated invocation returns the same result.
AlreadyCompleteIsNoOp ==
    [][(pc = "done" /\ run' = run + 1 /\ gamesFile.exists
            /\ gamesFile.games_fetched >= totalGames) =>
        /\ pc' = "done"
        /\ gamesFile' = gamesFile
        /\ checkpointFile' = checkpointFile
        /\ requestCount' = 0
        /\ result'.success /\ result'.isComplete /\ result'.requestsMade = 0
        /\ result'.totalGames = gamesFile.games_fetched
        /\ (result.isComplete /\ result.requestsMade = 0) => result' = result]_vars

\* the third invocation found the provider complete, as the second did
AlreadyCompleteWitness ==
    /\ pc = "done"
    /\ run = 3
    /\ gamesFile.exists
    /\ gamesFile.games_fetched >= totalGames
    /\ result.isComplete
    /\ result.requestsMade = 0

\* C8: the tracker of a run that reloads the persisted files has the
\* completed offsets, failed offsets and retry counts of the tracker that was
\* persisted.
CheckpointRoundTrip ==
    [][(pc = "done" /\ pc' = "loop" /\ checkpointFile.exists) =>
        /\ tracker'.completed = persisted.completed
        /\ tracker'.failed = persisted.failed
        /\ tracker'.retryCount = persisted.retryCount]_vars

\* C9: merging a result for an offset replaces the entry of that offset and
\* leaves the other entries alone; the total is the sum of the entry sizes.
MergeOverwrites ==
    (pc = "loop" /\ requests # <<>>) =>
        /\ \A i \in DOMAIN requests :
            Merged(i) =>
                /\ offsets[i] \in DOMAIN gamesByOffset
                /\ gamesByOffset[offsets[i]] = requests[i].value.games
        /\ DOMAIN before \subseteq DOMAIN gamesByOffset
        /\ \A o \in DOMAIN gamesByOffset :
            (\A i \in DOMAIN requests : Merged(i) => offsets[i] # o) =>
                /\ o \in DOMAIN before
                /\ gamesByOffset[o] = before[o]
        /\ (\E i \in DOMAIN requests : Merged(i)) =>
                totalExistingGames = Len(AllGames(gamesByOffset))

\* a second, different record set was merged for an offset the map held
MergeOverwritesWitness ==
    /\ pc = "loop"
    /\ \E i \in DOMAIN requests :
        /\ Merged(i)
        /\ offsets[i] \in DOMAIN before
        /\ before[offsets[i]] # requests[i].value.games
        /\ gamesByOffset[offsets[i]] = requests[i].value.games
        /\ DOMAIN gamesByOffset = FeedOffsets

\* C10: the merged record set never holds two records with the same id.
NoDuplicateIds ==
    Cardinality(Range(AllGames(gamesByOffset))) = Len(AllGames(gamesByOffset))

\* C11: every fetch has an offset that is a multiple of 39 with
\* 0 <= offset < totalGames and the limit min(39, totalGames - offset) >= 1;
\* the first batch for totalGames = 100 with nothing fetched and no
\* checkpoint is 0, 39, 78 with limits 39, 39, 22.
FetchPlan ==
    /\ \A i \in DOMAIN requests :
        /\ requests[i].offset % 39 = 0
        /\ 0 <= requests[i].offset
        /\ requests[i].offset < totalGames
        /\ requests[i].limit = Min(39, totalGames - requests[i].offset)
        /\ requests[i].limit >= 1
    /\ (pc = "fetching" /\ totalGames = 100 /\ before = <<>>
            /\ ~checkpointFile.exists /\ requestCount = Len(requests)) =>
        /\ offsets = <<0, 39, 78>>
        /\ [i \in DOMAIN requests |-> requests[i].offset] = <<0, 39, 78>>
        /\ [i \in DOMAIN requests |-> requests[i].limit] = <<39, 39, 22>>

FetchPlanWitness ==
    /\ pc = "fetching"
    /\ run = 1
    /\ totalGames = 100
    /\ requestCount = 3
    /\ requests[3].offset = 78
    /\ requests[3].limit = 22
    /\ \A i \in DOMAIN requests : Pending(i)

\* C12: while a fetch of the batch has not settled, no next batch is
\* requested and nothing of the batch is merged or persisted.
BatchIsAwaitedJointly ==
    [][(pc = "fetching" /\ \E i \in DOMAIN requests : Pending(i)) =>
        /\ pc' = "fetching"
        /\ offsets' = offsets
        /\ requestCount' = requestCount
        /\ gamesByOffset' = gamesByOffset
        /\ totalExistingGames' = totalExistingGames
        /\ gamesFile' = gamesFile
        /\ checkpointFile' = checkpointFile]_vars

\* one fetch of the batch brought games and failed siblings are settled,
\* while another fetch is still pending
AwaitedWitness ==
    /\ pc = "fetching"
    /\ \E i, j, k \in DOMAIN requests :
        /\ Merged(i)
        /\ requests[i].offset \notin DOMAIN gamesByOffset
        /\ ~Pending(j) /\ ~requests[j].value.success
        /\ Pending(k)

\* C13: when a batch is requested after an earlier batch of the same run, the
\* checkpoint on disk holds the tracker as that earlier batch left it
\* (completed offsets, failed offsets, retry counts), whatever the outcomes
\* of its members.
BatchFlushedBeforeNext ==
    [][(pc = "loop" /\ pc' = "fetching" /\ requestCount > 0)
        => persisted = Snapshot(tracker)]_vars

\* the last invocation was killed before it returned
Crashed == pc = "done" /\ run >= 1 /\ result = NoResult

\* C14: a run started after the process was killed holds, once it has loaded
\* the files, every record the killed run had merged in the batches it had
\* processed; only the batch in flight is lost.
CrashKeepsRecords ==
    [][(Crashed /\ run' = run + 1)
        => Range(AllGames(gamesByOffset)) \subseteq Range(AllGames(gamesByOffset'))]_vars

\* the second run has just loaded the files left by a first run that was
\* killed after it had saved records
CrashWitness ==
    /\ run = 2
    /\ env.crashesLeft = 0
    /\ pc = "loop"
    /\ requestCount = 0
    /\ clock > 0
    /\ DOMAIN gamesByOffset # {}
    /\ totalExistingGames < totalGames

\* C15: within a run and from one run to the next, no save lowers the
\* persisted record count games_fetched, and every record persisted earlier
\* is still in the games file after every later save.
SavesNeverLoseProgress ==
    [][gamesFile.exists =>
        /\ gamesFile'.exists
        /\ gamesFile'.games_fetched >= gamesFile.games_fetched
        /\ Range(gamesFile.games) \subseteq Range(gamesFile'.games)]_vars

\* a second run, started on the files of a first run that ended short of the
\* target, has saved more records than the first run left
ResumedProgressWitness ==
    /\ run = 2
    /\ pc \in {"loop", "done"}
    /\ requestCount \in 1..MAX_CONCURRENT_REQUESTS
    /\ DOMAIN before # {}
    /\ gamesFile.exists
    /\ gamesFile.games_fetched > TotalOf(before)

\* what executeSingleRequest resolves with for a valid payload without games
EmptyPayload == [success |-> TRUE, games |-> <<>>]

\* C16: a fetch that resolves with a valid payload of zero records completes
\* its offset with no games and leaves the offset's retry count as it was;
\* within a run a completed offset stays completed and no request is issued
\* for it; and a run that returns reports isComplete exactly when its record
\* count has reached the target.
EmptySuccessCompletes ==
    [][/\ \A i \in DOMAIN requests :
            (pc = "fetching" /\ Pending(i) /\ i \in DOMAIN requests'
                /\ requests'[i].result = <<EmptyPayload>>) =>
                /\ requests[i].offset \in tracker'.completed
                /\ requests[i].offset \notin tracker'.failed
                /\ Retries(tracker', requests[i].offset)
                        = Retries(tracker, requests[i].offset)
                /\ requests'[i].value.success
                /\ requests'[i].value.games = <<>>
       /\ run' = run => tracker.completed \subseteq tracker'.completed
       /\ (pc = "loop" /\ pc' = "fetching") =>
            \A i \in DOMAIN requests' :
                requests'[i].offset \notin tracker.completed
       /\ (pc' = "done" /\ result' # NoResult) =>
            result'.isComplete = (result'.totalGames >= totalGames)]_vars

\* an offset was completed by a valid payload without games, holds no games
\* in the map, and a later batch of the same run is in flight
EmptySuccessWitness ==
    /\ pc = "fetching"
    /\ requestCount > MAX_CONCURRENT_REQUESTS
    /\ emptyStreak > 0
    /\ \E o \in tracker.completed : o \notin DOMAIN gamesByOffset

\* request i resolved with a payload that could not be parsed
ParseFailed(i) ==
    /\ requests[i].result # <<>>
    /\ ~requests[i].result[1].success

\* C17: the empty-response counter equals the number of valid payloads
\* without games since the last payload with games; stated for the step that
\* processes a settled batch none of whose members failed to parse, when the
\* two were equal before the step.
EmptyCounterSurvivesBatch ==
    [][(/\ pc = "fetching" /\ pc' # "fetching"
        /\ \A i \in DOMAIN requests : ~ParseFailed(i)
        /\ emptyResponseCount = emptyStreak)
        => emptyResponseCount' = emptyStreak']_vars

\* C18: a request whose payload could not be parsed (success = false) settles
\* as a failed fetch of its offset: the offset is not marked completed and
\* the value handed to the coordinator does not say success.
ParseErrorIsFailure ==
    [][\A i \in DOMAIN requests :
        (pc = "fetching" /\ Pending(i) /\ i \in DOMAIN requests'
            /\ requests'[i].result # <<>>
            /\ ~requests'[i].result[1].success) =>
            /\ requests[i].offset \notin tracker'.completed
            /\ ~requests'[i].value.success]_vars

\* C19: once a saveProviderData call of a run has failed, the run requests
\* no further batch and does not return success.
SaveFailureIsFatal ==
    [][(saveFailed /\ run' = run) =>
        /\ requestCount' = requestCount
        /\ (result' # NoResult => ~result'.success)]_vars

\* the number of records the map holds at offsets below o
RecordsBelow(gbo, o) == SumLengths(gbo, {k \in DOMAIN gbo : k < o})

\* the offset of the upstream page a record came from
SourceOffset(game) == ((game - 1) \div GAMES_PER_REQUEST) * GAMES_PER_REQUEST

\* C20: the persisted games array is the concatenation of the per-offset
\* record lists in ascending offset order, in-page order kept: the list the
\* map holds for offset o sits right after the records of all lower offsets,
\* nothing else is in the array, and no record stands before a record of a
\* lower source offset.
PersistedInOffsetOrder ==
    gamesFile.exists =>
        /\ Len(gamesFile.games) = TotalOf(gamesByOffset)
        /\ \A o \in DOMAIN gamesByOffset :
            SubSeq(gamesFile.games, RecordsBelow(gamesByOffset, o) + 1,
                   RecordsBelow(gamesByOffset, o) + Len(gamesByOffset[o]))
                = gamesByOffset[o]
        /\ \A i, j \in 1..Len(gamesFile.games) :
            i < j => SourceOffset(gamesFile.games[i])
                        <= SourceOffset(gamesFile.games[j])

\* C21: every run of completeProviderParallel returns, provided every fetch
\* settles, runs started on a restored checkpoint included.
RunTerminates == (pc # "done") ~> (pc = "done")

\* a second run, started with a permanently failed offset restored from the
\* checkpoint, has made requests and returned
RestoredRunReturned ==
    /\ run = 2
    /\ pc = "done"
    /\ result # NoResult
    /\ result.requestsMade \in 1..MAX_CONCURRENT_REQUESTS
    /\ tracker.failed # {}

\* every offset one of the two trackers knows
KnownOffsets(t, u) ==
    t.completed \cup t.failed \cup t.inProgress \cup DOMAIN t.retryCount
        \cup u.completed \cup u.failed \cup u.inProgress \cup DOMAIN u.retryCount

\* offset o has the same state and retry count in trackers t and u
SameOffsetState(t, u, o) ==
    /\ (o \in t.completed) = (o \in u.completed)
    /\ (o \in t.failed) = (o \in u.failed)
    /\ (o \in t.inProgress) = (o \in u.inProgress)
    /\ Retries(t, o) = Retries(u, o)

\* request i was rejected by executeSingleRequest (timeout, exit code, no
\* response file)
Rejected(i) ==
    /\ requests[i].status = "fulfilled"
    /\ requests[i].result = <<>>

\* C22: the settling of one request of a batch, whatever its outcome, leaves
\* the state and retry count of every other offset, the other requests and
\* the merged records as they were; and when the batch is processed every
\* request that brought games has its offset completed and its games merged,
\* whatever happened to its siblings.
OwnOffsetOnly ==
    [][/\ \A i \in DOMAIN requests :
            (pc = "fetching" /\ Pending(i) /\ i \in DOMAIN requests'
                /\ requests'[i].status = "fulfilled") =>
                /\ \A o \in KnownOffsets(tracker, tracker') \ {requests[i].offset} :
                        SameOffsetState(tracker, tracker', o)
                /\ \A j \in DOMAIN requests \ {i} : requests'[j] = requests[j]
                /\ gamesByOffset' = gamesByOffset
       /\ (pc = "fetching" /\ pc' # "fetching") =>
            \A i \in DOMAIN requests :
                (requests[i].result # <<>> /\ requests[i].result[1].success
                    /\ Len(requests[i].result[1].games) > 0) =>
                    /\ requests[i].offset \in tracker'.completed
                    /\ requests[i].offset \in DOMAIN gamesByOffset'
                    /\ gamesByOffset'[requests[i].offset]
                            = requests[i].result[1].games]_vars

\* a batch has been processed in which the first request was rejected and a
\* later one brought games that were merged
SiblingMergedWitness ==
    /\ pc = "loop"
    /\ Len(requests) >= 2
    /\ Rejected(1)
    /\ Retries(tracker, requests[1].offset) >= 1
    /\ \E j \in DOMAIN requests :
            /\ j > 1 /\ Merged(j)
            /\ requests[j].offset \in tracker.completed
            /\ gamesByOffset[requests[j].offset] = requests[j].value.games

\* C23: a request that is rejected (transport failure, timeout) adds one to
\* the retry count of its offset and to no other, and leaves the
\* empty-response counter alone; a request that resolves with a valid
\* payload of zero records adds one to the empty-response counter and leaves
\* every retry count and the failed set alone.
FailureAndEmptyBudgets ==
    [][\A i \in DOMAIN requests :
        (pc = "fetching" /\ Pending(i) /\ i \in DOMAIN requests'
            /\ requests'[i].status = "fulfilled") =>
            /\ requests'[i].result = <<>> =>
                /\ Retries(tracker', requests[i].offset)
                        = Retries(tracker, requests[i].offset) + 1
                /\ \A o \in KnownOffsets(tracker, tracker') \ {requests[i].offset} :
                        Retries(tracker', o) = Retries(tracker, o)
                /\ emptyResponseCount' = emptyResponseCount
            /\ requests'[i].result = <<EmptyPayload>> =>
                /\ emptyResponseCount' = emptyResponseCount + 1
                /\ tracker'.retryCount = tracker.retryCount
                /\ tracker'.failed = tracker.failed]_vars

\* in one batch a request was rejected and another resolved with a valid
\* payload of zero records
BothBudgetsWitness ==
    /\ pc = "fetching"
    /\ emptyResponseCount = 1
    /\ \E i, j \in DOMAIN requests :
            /\ Rejected(i)
            /\ Retries(tracker, requests[i].offset) = 1
            /\ requests[j].result = <<EmptyPayload>>
            /\ Retries(tracker, requests[j].offset) = 0

\* C24: when the timer of a request fires before the request has settled, the
\* child is killed and the request settles as a failure that adds one to the
\* retry count of its offset and says whether a retry is left; a settled
\* request stays as it settled; and a timer that fires or a child that
\* closes after its request has settled changes neither the tracker, nor the
\* requests, nor the empty-response counter.
TimeoutSettlesOnce ==
    [][\A i \in DOMAIN children :
        (i \in DOMAIN children' /\ run' = run /\ requestCount' = requestCount) =>
            /\ (Pending(i) /\ children[i].timer = "armed"
                    /\ children'[i].timer = "fired") =>
                /\ children'[i].process = "killed"
                /\ requests'[i].status = "fulfilled"
                /\ requests'[i].result = <<>>
                /\ ~requests'[i].value.success
                /\ Retries(tracker', requests[i].offset)
                        = Retries(tracker, requests[i].offset) + 1
                /\ requests'[i].value.canRetry
                        = <<Retries(tracker', requests[i].offset) < MAX_RETRIES>>
            /\ ~Pending(i) => requests'[i] = requests[i]
            /\ (~Pending(i) /\ children'[i] # children[i]) =>
                /\ tracker' = tracker
                /\ requests' = requests
                /\ emptyResponseCount' = emptyResponseCount]_vars

\* of one batch, one request was rejected by its timer and its child has
\* closed since, and the timer of another fired after the request had
\* resolved with games
LateEventsWitness ==
    \E i, j \in DOMAIN children :
        /\ Rejected(i)
        /\ children[i] = [timer |-> "fired", process |-> "closed"]
        /\ Retries(tracker, requests[i].offset) = 1
        /\ Merged(j)
        /\ children[j] = [timer |-> "fired", process |-> "closed"]
        /\ Retries(tracker, requests[j].offset) = 0

\* C25: whatever way a request of a batch ends (rejection, timeout, payload
\* that cannot be parsed, empty page, games), its promise is fulfilled and its
\* offset leaves inProgress for completed or with one more retry counted;
\* and every return of the run is a result with success = true that carries
\* the number of records merged so far.
OffsetErrorsAbsorbed ==
    [][/\ \A i \in DOMAIN requests :
            (pc = "fetching" /\ Pending(i) /\ i \in DOMAIN requests'
                /\ requests'[i].status # "pending") =>
                /\ requests'[i].status = "fulfilled"
                /\ requests[i].offset \notin tracker'.inProgress
                /\ \/ requests[i].offset \in tracker'.completed
                   \/ Retries(tracker', requests[i].offset)
                        = Retries(tracker, requests[i].offset) + 1
       /\ (pc # "done" /\ pc' = "done") =>
            /\ result' # NoResult
            /\ result'.success
            /\ result'.totalGames = TotalOf(gamesByOffset')
            /\ result'.requestsMade = requestCount]_vars

\* a run has returned short of the target after an offset failed for good,
\* with the records of the other offsets in its result
PartialResultWitness ==
    /\ pc = "done"
    /\ result # NoResult
    /\ result.success
    /\ ~result.isComplete
    /\ result.totalGames > 0
    /\ result.requestsMade > MAX_RETRIES
    /\ tracker.failed # {}

\* the page offsets of the provider: the multiples of 39 below totalGames
PageOffsets == {o \in 0..(totalGames - 1) : o % GAMES_PER_REQUEST = 0}

\* the page offsets that are neither completed nor permanently failed
Fetchable(t) == {o \in PageOffsets : o \notin t.completed /\ o \notin t.failed}

\* C26: getNextSequentialOffset is the smallest multiple of 39 that is not
\* completed, and every batch is made of the smallest page offsets that are
\* neither completed nor permanently failed: as many as there are, up to
\* three, none of them passed over for a larger one.
SmallestFetchableFirst ==
    [][(pc = "loop" /\ pc' = "fetching") =>
        /\ getNextSequentialOffset(tracker) % GAMES_PER_REQUEST = 0
        /\ getNextSequentialOffset(tracker) \notin tracker.completed
        /\ \A o \in 0..getNextSequentialOffset(tracker) :
                (o % GAMES_PER_REQUEST = 0 /\ o < getNextSequentialOffset(tracker))
                    => o \in tracker.completed
        /\ Range(offsets') \subseteq Fetchable(tracker)
        /\ Len(offsets') = Min(MAX_CONCURRENT_REQUESTS,
                               Cardinality(Fetchable(tracker)))
        /\ Cardinality(Range(offsets')) = Len(offsets')
        /\ \A o \in Fetchable(tracker), b \in Range(offsets') :
                o < b => o \in Range(offsets')]_vars

\* a batch is in flight that goes around a completed offset: the offsets
\* below and above it are fetched again
GapBatchWitness ==
    /\ pc = "fetching"
    /\ Len(offsets) = 2
    /\ \E o \in tracker.completed : offsets[1] < o /\ o < offsets[2]

\* offset o has failed before and has retries left
Retryable(t, o) == 0 < Retries(t, o) /\ Retries(t, o) < MAX_RETRIES

\* C27: in every batch the offsets that failed before and have retries left
\* come before the offsets that never failed, and each of the two groups is
\* in ascending order.
RetriesBeforeNew ==
    [][(pc = "loop" /\ pc' = "fetching") =>
        \A i, j \in DOMAIN offsets' :
            i < j =>
                /\ ~(~Retryable(tracker, offsets'[i])
                        /\ Retryable(tracker, offsets'[j]))
                /\ (Retryable(tracker, offsets'[i])
                        = Retryable(tracker, offsets'[j]))
                    => offsets'[i] < offsets'[j]]_vars

\* the external fetches that have not ended: those of the batch and those of
\* earlier batches
InFlight ==
    Cardinality({i \in DOMAIN children : children[i].process # "closed"})
        + env.orphans

\* C28: at most MAX_CONCURRENT_REQUESTS (3) external fetches are in flight at
\* any instant of a run.
PoolWidthRespected == InFlight <= MAX_CONCURRENT_REQUESTS


\* ---------------------------------------------------------------------
\* data_parser.js: parseStakeResponse and its helpers.
\* A raw response is described by what the parser's tests and regular
\* expressions see in it.
\* ---------------------------------------------------------------------

\* the most game objects a modelled response carries
MaxParsedGames == 2

\* lengths of the trimmed response around the parser's two thresholds
ResponseLengths == {5, 30, 49, 50, 99, 100, 400}

\* the JSON document of a response: whether data.slugKuratorGroup is
\* there, and how many entries of groupGamesList carry a game
JsonDocuments == [hasGroup : BOOLEAN, games : 0..MaxParsedGames]

\* the raw responses: the text "error", and texts of every length with
\* or without an HTML wrapper, holding well-formed or malformed JSON
ParserInputs ==
    { in \in [ isError        : BOOLEAN,          \* trim() === 'error'
               trimmedLength  : ResponseLengths,  \* trim().length
               padding        : {0, 2},           \* white space around it
               hasContainerTag: BOOLEAN,          \* includes '<div id="resultContainer">'
               hasPlainDiv    : BOOLEAN,          \* includes '<div>'
               containerMatch : BOOLEAN,          \* the resultContainer pattern matches
               wrappedJson    : {"none", "bad", "good"},  \* the JSON inside the wrapper
               direct         : {"bad", "good"},  \* JSON.parse of the whole text
               json           : JsonDocuments,    \* the document, where one parses
               hasGtm         : BOOLEAN,          \* includes 'gtminfo' or 'google_tag_manager'
               hasSlugKey     : BOOLEAN,          \* includes '"slugKuratorGroup"'
               providerMatch  : BOOLEAN,          \* the provider metadata pattern matches
               gameMatches    : 0..MaxParsedGames,\* matches of the game pattern
               altMatch       : BOOLEAN ] :       \* matches of the alternative pattern
        LET wrapped == in.hasContainerTag \/ in.hasPlainDiv
            parses  == in.direct = "good" \/ in.wrappedJson = "good"
        IN  /\ in.isError =>
                /\ in.trimmedLength = 5
                /\ ~wrapped /\ in.direct = "bad" /\ ~in.hasGtm
                /\ ~in.hasSlugKey /\ in.gameMatches = 0
            /\ in.trimmedLength = 5 => ~in.hasContainerTag /\ ~in.hasSlugKey
            /\ wrapped <=> in.wrappedJson # "none"
            /\ wrapped => in.direct = "bad"
            /\ in.containerMatch => in.hasContainerTag
            /\ in.providerMatch => in.hasSlugKey /\ in.trimmedLength >= 99
            /\ in.altMatch => in.hasSlugKey
            /\ in.gameMatches > 0 => in.trimmedLength >= 30
            /\ ~parses => in.json = [hasGroup |-> FALSE, games |-> 0]
            /\ parses /\ in.json.hasGroup => in.hasSlugKey
            /\ parses => in.gameMatches <= in.json.games
            /\ parses /\ ~in.json.hasGroup => in.json.games = 0 }

\* return { success: false, error: ..., games: [] }
ParseError == [threw |-> FALSE, success |-> FALSE, games |-> 0, called |-> TRUE]

\* return { success: true, provider: ..., games: [...] }
ParseSuccess(n) == [threw |-> FALSE, success |-> TRUE, games |-> n, called |-> TRUE]

\* throw new Error(...)
Thrown == [threw |-> TRUE, success |-> FALSE, games |-> 0, called |-> TRUE]

\* try { ... } catch (error) { return { success: false, ... } }
Catch(r) == IF r.threw THEN ParseError ELSE r

\* extractDataFromJson(jsonData): throws without data.slugKuratorGroup,
\* else succeeds with the games of groupGamesList || []
extractDataFromJson(json) ==
    IF ~json.hasGroup THEN Thrown ELSE ParseSuccess(json.games)

\* parseAlternativeFormat(responseData): every match of its pattern opens
\* two braces and closes one, so JSON.parse rejects each of them and the
\* function ends in its throw, which its own catch turns into a failure
parseAlternativeFormat(in) == Catch(Thrown)

\* parseWithRegex(responseData)
parseWithRegex(in) ==
    Catch(IF /\ in.containerMatch
             /\ in.wrappedJson = "good"
             /\ ~extractDataFromJson(in.json).threw
          THEN extractDataFromJson(in.json)
          ELSE IF in.hasGtm /\ ~in.hasContainerTag /\ ~in.hasSlugKey
          THEN ParseError
          ELSE IF in.isError \/ in.trimmedLength + in.padding < 100
          THEN ParseError
          ELSE IF ~in.providerMatch
          THEN Thrown
          ELSE IF in.gameMatches = 0
          THEN parseAlternativeFormat(in)
          ELSE ParseSuccess(in.gameMatches))

\* parseStakeResponse(responseData)
parseStakeResponse(in) ==
    Catch(IF in.isError \/ in.trimmedLength < 50
          THEN ParseError
          ELSE IF in.hasContainerTag \/ in.hasPlainDiv
          THEN parseWithRegex(in)
          ELSE IF in.direct = "good"
          THEN extractDataFromJson(in.json)
          ELSE Thrown)

\* the driver's locals while only the parser is exercised
DriverIdle ==
    /\ totalGames = TEST_TOTAL_GAMES
    /\ invocations = 0
    /\ gamesFile = NoGamesFile
    /\ checkpointFile = NoCheckpointFile
    /\ clock = 0
    /\ run = 0
    /\ pc = "done"
    /\ tracker = NewTracker
    /\ gamesByOffset = <<>>
    /\ totalExistingGames = 0
    /\ requestCount = 0
    /\ emptyResponseCount = 0
    /\ offsets = <<>>
    /\ requests = <<>>
    /\ result = NoResult
    /\ persisted = Snapshot(NewTracker)
    /\ before = <<>>
    /\ env = NoFaults
    /\ saveFailed = FALSE
    /\ emptyStreak = 0
    /\ children = <<>>

driverVars == <<totalGames, invocations, gamesFile, checkpointFile, clock,
                run, pc, tracker, gamesByOffset, totalExistingGames,
                requestCount, emptyResponseCount, offsets, requests, result,
                persisted, before, env, saveFailed, emptyStreak, children>>

\* any raw response, not yet parsed
InitParse ==
    /\ DriverIdle
    /\ ScriptsIdle
    /\ responseData \in ParserInputs
    /\ parsed = NotParsed
    /\ jsonString = <<>>

\* const parseResult = parseStakeResponse(result.data)
ParseResponse ==
    /\ ~parsed.called
    /\ responseData \in ParserInputs
    /\ parsed' = parseStakeResponse(responseData)
    /\ UNCHANGED <<responseData, jsonString>>
    /\ UNCHANGED <<driverVars, scriptVars>>

SpecParse == InitParse /\ [][ParseResponse]_vars

\* the JSON of the response is well formed, whether bare or wrapped
WellFormed(in) == in.direct = "good" \/ in.wrappedJson = "good"

\* a valid provider payload whose games list is empty
ValidEmptyPayload(in) ==
    /\ ~in.isError
    /\ in.trimmedLength >= 50
    /\ WellFormed(in)
    /\ in.json.hasGroup
    /\ in.json.games = 0

\* a tracking or analytics payload: the tag manager's markers and no
\* provider data
TrackingPayload(in) ==
    /\ in.hasGtm
    /\ ~in.hasContainerTag
    /\ ~in.hasSlugKey
    /\ ~WellFormed(in)

\* C29: parseStakeResponse never throws; for "error", for an input
\* shorter than 50 characters, for malformed JSON and for a tracking
\* payload it returns success = false, and only a valid provider payload
\* with an empty games list gives success = true with zero records
ParserTellsErrorFromEmpty ==
    parsed.called =>
        /\ ~parsed.threw
        /\ responseData.isError \/ responseData.trimmedLength < 50
               => ~parsed.success
        /\ ~WellFormed(responseData) => ~parsed.success
        /\ TrackingPayload(responseData) => ~parsed.success
        /\ ValidEmptyPayload(responseData)
               => parsed.success /\ parsed.games = 0
        /\ parsed.success /\ parsed.games = 0
               => ValidEmptyPayload(responseData)


\* ---------------------------------------------------------------------
\* graphql_fetcher.js: extraction of the JSON text from an HTML wrapper.
\* A response is a sequence of tokens: the two opening tags, the closing
\* tag, the braces, white space and any other character.
\* ---------------------------------------------------------------------

\* the longest modelled response, in tokens
MaxResponseLen == 5

\* "C" is <div id="resultContainer">, "D" is <div>, "E" is </div>,
\* "x" is any character that is neither a brace nor white space
Tokens == {"C", "D", "E", "{", "}", " ", "x"}

\* the length of a token in characters
CharLen(c) == CASE c = "C" -> 26 [] c = "D" -> 5 [] c = "E" -> 6 [] OTHER -> 1

RECURSIVE TextLen(_)
TextLen(s) == IF s = <<>> THEN 0 ELSE CharLen(Head(s)) + TextLen(Tail(s))

\* responseData.includes('<div id="resultContainer">') || includes('<div>')
Wrapped(resp) == \E k \in 1..Len(resp) : resp[k] \in {"C", "D"}

\* the responses that take the fetcher's HTML branch
WrappedResponses ==
    { resp \in UNION { [1..n -> Tokens] : n \in 1..MaxResponseLen } :
        Wrapped(resp) }

\* the capture ({.*?}) that starts at position b and is followed by
\* </div>: the shortest one, as its end; 0 when there is none
LazyCapture(resp, b) ==
    LET ends == { j \in (b + 1)..(Len(resp) - 1) :
                    resp[j] = "}" /\ resp[j + 1] = "E" }
    IN  IF b <= Len(resp) /\ resp[b] = "{" /\ ends # {}
        THEN CHOOSE j \in ends : \A k \in ends : j <= k
        ELSE 0

\* Pattern 1: /<div[^>]*id="resultContainer"[^>]*><div[^>]*>({.*?})<\/div>/s
Pattern1(resp) ==
    LET starts == { a \in 1..Len(resp) :
                      /\ resp[a] = "C"
                      /\ a + 1 <= Len(resp)
                      /\ resp[a + 1] \in {"C", "D"}
                      /\ LazyCapture(resp, a + 2) > 0 }
    IN  IF starts = {} THEN <<>>
        ELSE LET a == CHOOSE x \in starts : \A y \in starts : x <= y
             IN  SubSeq(resp, a + 2, LazyCapture(resp, a + 2))

\* Pattern 2: /<div[^>]*>({.*?})<\/div>/s
Pattern2(resp) ==
    LET starts == { a \in 1..Len(resp) :
                      /\ resp[a] \in {"C", "D"}
                      /\ LazyCapture(resp, a + 1) > 0 }
    IN  IF starts = {} THEN <<>>
        ELSE LET a == CHOOSE x \in starts : \A y \in starts : x <= y
             IN  SubSeq(resp, a + 1, LazyCapture(resp, a + 1))

\* the end of the match of \{[^{}]*(?:\{[^{}]*\}[^{}]*)*\} whose opening
\* brace has been read, reading on at position p inside `depth` braces;
\* 0 when the pattern does not match from there
RECURSIVE ObjectEnd(_, _, _)
ObjectEnd(resp, p, depth) ==
    IF p > Len(resp) THEN 0
    ELSE IF resp[p] = "{"
         THEN IF depth = 1 THEN ObjectEnd(resp, p + 1, 2) ELSE 0
    ELSE IF resp[p] = "}"
         THEN IF depth = 2 THEN ObjectEnd(resp, p + 1, 1) ELSE p
    ELSE ObjectEnd(resp, p + 1, depth)

\* responseData.match(/.../g): the matches from position a on, left to
\* right and not overlapping
RECURSIVE ObjectMatches(_, _)
ObjectMatches(resp, a) ==
    IF a > Len(resp) THEN <<>>
    ELSE LET e == IF resp[a] = "{" THEN ObjectEnd(resp, a + 1, 1) ELSE 0
         IN  IF e > 0
             THEN <<SubSeq(resp, a, e)>> \o ObjectMatches(resp, e + 1)
             ELSE ObjectMatches(resp, a + 1)

\* jsonMatches.reduce((a, b) => a.length > b.length ? a : b)
RECURSIVE Largest(_, _)
Largest(acc, rest) ==
    IF rest = <<>> THEN acc
    ELSE Largest(IF TextLen(acc) > TextLen(Head(rest)) THEN acc
                 ELSE Head(rest),
                 Tail(rest))

\* Pattern 3: the largest match of the object pattern
Pattern3(resp) ==
    LET jsonMatches == ObjectMatches(resp, 1)
    IN  IF jsonMatches = <<>> THEN <<>>
        ELSE Largest(Head(jsonMatches), Tail(jsonMatches))

\* Pattern 4: everything between the first { and the last }
Pattern4(resp) ==
    LET opens  == { k \in 1..Len(resp) : resp[k] = "{" }
        closes == { k \in 1..Len(resp) : resp[k] = "}" }
    IN  IF opens = {} \/ closes = {} THEN <<>>
        ELSE LET firstBrace == CHOOSE x \in opens : \A y \in opens : x <= y
                 lastBrace  == CHOOSE x \in closes : \A y \in closes : x >= y
             IN  IF firstBrace < lastBrace
                 THEN SubSeq(resp, firstBrace, lastBrace)
                 ELSE <<>>

\* the chain of the four patterns; <<>> is jsonString = null
ExtractFromWrapper(resp) ==
    IF Pattern1(resp) # <<>> THEN Pattern1(resp)
    ELSE IF Pattern2(resp) # <<>> THEN Pattern2(resp)
    ELSE IF Pattern3(resp) # <<>> THEN Pattern3(resp)
    ELSE Pattern4(resp)

\* jsonString.trim()
RECURSIVE TrimStart(_)
TrimStart(s) ==
    IF s # <<>> /\ Head(s) = " " THEN TrimStart(Tail(s)) ELSE s

RECURSIVE TrimEnd(_)
TrimEnd(s) ==
    IF s # <<>> /\ s[Len(s)] = " "
    THEN TrimEnd(SubSeq(s, 1, Len(s) - 1))
    ELSE s

Trim(s) == TrimEnd(TrimStart(s))

\* the loop over jsonString: from position p with the given braceCount
\* and lastValidPos (positions counted from 1, 0 for none), the final
\* lastValidPos
RECURSIVE LastValidPos(_, _, _, _)
LastValidPos(s, p, braceCount, last) ==
    IF p > Len(s) THEN last
    ELSE IF s[p] = "{" THEN LastValidPos(s, p + 1, braceCount + 1, last)
    ELSE IF s[p] = "}"
         THEN LastValidPos(s, p + 1, braceCount - 1,
                           IF braceCount - 1 = 0 THEN p ELSE last)
    ELSE LastValidPos(s, p + 1, braceCount, last)

\* if (!jsonString.endsWith('}')) { ... if (lastValidPos > 0)
\*     jsonString = jsonString.substring(0, lastValidPos + 1) }
BalanceTruncated(s) ==
    IF s # <<>> /\ s[Len(s)] = "}" THEN s
    ELSE LET last == LastValidPos(s, 1, 0, 0)
         IN  IF last > 1 THEN SubSeq(s, 1, last) ELSE s

\* there is no JSON text: the fetcher throws
NoJson == <<"null">>

\* the text the fetcher hands to JSON.parse for a wrapped response
HandedToParse(resp) ==
    LET found == ExtractFromWrapper(resp)
    IN  IF found = <<>> THEN NoJson ELSE BalanceTruncated(Trim(found))

\* any wrapped response, nothing extracted yet
InitExtract ==
    /\ DriverIdle
    /\ ScriptsIdle
    /\ responseData \in WrappedResponses
    /\ parsed = NotParsed
    /\ jsonString = <<>>

\* the HTML branch of fetchProviderDataGraphQL up to JSON.parse
ExtractJson ==
    /\ jsonString = <<>>
    /\ jsonString' = HandedToParse(responseData)
    /\ UNCHANGED <<responseData, parsed>>
    /\ UNCHANGED <<driverVars, scriptVars>>

SpecExtract == InitExtract /\ [][ExtractJson]_vars

\* the brace depth at the end of a text
RECURSIVE Depth(_)
Depth(s) ==
    IF s = <<>> THEN 0
    ELSE Depth(SubSeq(s, 1, Len(s) - 1))
         + (IF s[Len(s)] = "{" THEN 1 ELSE IF s[Len(s)] = "}" THEN -1 ELSE 0)

\* every brace of the text is matched
Balanced(s) ==
    /\ Depth(s) = 0
    /\ \A k \in 1..Len(s) : Depth(SubSeq(s, 1, k)) >= 0

\* the text stops inside an object: braces are still open at its end
Truncated(s) == Depth(s) > 0

\* the text cut back to the last position where the depth returned to zero
UpToLastZero(s) ==
    LET zeros == { k \in 1..Len(s) : s[k] = "}" /\ Depth(SubSeq(s, 1, k)) = 0 }
    IN  IF zeros = {} THEN <<>>
        ELSE SubSeq(s, 1, CHOOSE x \in zeros : \A y \in zeros : x >= y)

\* C30: when the JSON text extracted from the wrapper is truncated, the
\* text handed to JSON.parse is that text cut back to the last position
\* where the brace depth returned to zero, and its braces are balanced
TruncatedJsonTrimmed ==
    LET found == Trim(ExtractFromWrapper(responseData))
    IN  jsonString # <<>> /\ jsonString # NoJson /\ Truncated(found) =>
            /\ jsonString = UpToLastZero(found)
            /\ Balanced(jsonString)


\* ---------------------------------------------------------------------
\* the checkpoint record
\* ---------------------------------------------------------------------

\* the sequence is strictly ascending
StrictlyAscending(seq) ==
    \A i \in 1..(Len(seq) - 1) : seq[i] < seq[i + 1]

\* C31: in every checkpoint saveProviderData wrote, status is "completed"
\* exactly when games_fetched >= total_games and "in_progress" otherwise,
\* is_complete says the same and needs_pagination the opposite,
\* completed_offsets is strictly ascending, and last_successful_offset is
\* the largest completed offset, or -1 when there is none
CheckpointWellFormed ==
    checkpointFile.exists =>
        LET c    == checkpointFile
            full == c.games_fetched >= c.total_games
        IN  /\ c.status = (IF full THEN "completed" ELSE "in_progress")
            /\ c.is_complete = full
            /\ c.needs_pagination = ~full
            /\ StrictlyAscending(c.completed_offsets)
            /\ IF c.completed_offsets = <<>>
               THEN c.last_successful_offset = -1
               ELSE /\ c.last_successful_offset \in Range(c.completed_offsets)
                    /\ \A o \in Range(c.completed_offsets) :
                            o <= c.last_successful_offset

\* a checkpoint of an unfinished provider with several completed offsets
\* has been written
PartialCheckpointWitness ==
    /\ checkpointFile.exists
    /\ checkpointFile.status = "in_progress"
    /\ Len(checkpointFile.completed_offsets) >= 2


\* ---------------------------------------------------------------------
\* complete_all_providers_parallel.js: completeAllProvidersParallel
\* ---------------------------------------------------------------------

\* the most checkpoint files scanAllProviders finds
MaxProviders == 3

\* the most games a scanned provider still misses
MaxRemaining == 2

\* what scanAllProviders can return: one provider per checkpoint file, in
\* the order of the directory listing
ScannedProviders ==
    UNION { { ps \in [1..n -> [slug : 1..n, remainingGames : 0..MaxRemaining]] :
                \A k \in 1..n : ps[k].slug = k } :
            n \in 0..MaxProviders }

\* allProviders.filter(p => p.remainingGames > 0)
RECURSIVE FilterIncomplete(_)
FilterIncomplete(ps) ==
    IF ps = <<>> THEN <<>>
    ELSE IF Head(ps).remainingGames > 0
         THEN <<Head(ps)>> \o FilterIncomplete(Tail(ps))
         ELSE FilterIncomplete(Tail(ps))

\* the sequence without its k-th element
RemoveAt(seq, k) == SubSeq(seq, 1, k - 1) \o SubSeq(seq, k + 1, Len(seq))

\* incompleteProviders.sort((a, b) => a.remainingGames - b.remainingGames):
\* ascending, and stable
RECURSIVE SortByRemaining(_)
SortByRemaining(ps) ==
    IF ps = <<>> THEN <<>>
    ELSE LET least == SetMin({ps[k].remainingGames : k \in 1..Len(ps)})
             first == SetMin({k \in 1..Len(ps) : ps[k].remainingGames = least})
         IN  <<ps[first]>> \o SortByRemaining(RemoveAt(ps, first))

\* how a call of completeProviderParallel can end: it returns success with
\* isComplete, it returns success without isComplete, or it throws
RunOutcomes == {"complete", "partial", "throws"}

\* the script starts on any set of checkpoint files
InitAll ==
    /\ DriverIdle
    /\ ParserIdle
    /\ providers \in ScannedProviders
    /\ incompleteProviders = <<>>
    /\ providerIndex = 0
    /\ loopPc = "scan"
    /\ active = {}
    /\ completed = 0
    /\ failed = 0
    /\ started = <<>>
    /\ outcomes = <<>>
    /\ rawFiles = <<>>
    /\ SequentialIdle
    /\ FetcherIdle

\* scan, filter, sort; return at once when nothing is incomplete
ScanProviders ==
    /\ loopPc = "scan"
    /\ incompleteProviders' = SortByRemaining(FilterIncomplete(providers))
    /\ providerIndex' = 1
    /\ loopPc' = IF incompleteProviders' = <<>> THEN "finished" ELSE "loop"
    /\ UNCHANGED <<providers, active, completed, failed, started, outcomes>>
    /\ UNCHANGED <<driverVars, parserVars, rawFiles, sequentialVars, fetcherVars>>

\* a loop that calls completeProviderParallel(provider) without awaiting it
StartProviderDetached ==
    /\ loopPc = "loop"
    /\ active' = active \cup {providerIndex}
    /\ started' = Append(started, incompleteProviders[providerIndex].slug)
    /\ loopPc' = IF providerIndex < Len(incompleteProviders) THEN "delay"
                 ELSE "finished"
    /\ UNCHANGED <<providers, incompleteProviders, providerIndex, completed,
                   failed, outcomes>>
    /\ UNCHANGED <<driverVars, parserVars, rawFiles, sequentialVars, fetcherVars>>

\* const result = await completeProviderParallel(provider): the call
StartProvider ==
    /\ loopPc = "loop"
    /\ active' = active \cup {providerIndex}
    /\ started' = Append(started, incompleteProviders[providerIndex].slug)
    /\ loopPc' = "awaiting"
    /\ UNCHANGED <<providers, incompleteProviders, providerIndex, completed,
                   failed, outcomes>>
    /\ UNCHANGED <<driverVars, parserVars, rawFiles, sequentialVars, fetcherVars>>

\* a loop without the try/catch: the first run that throws ends it
ProviderEndsUncaught(outcome) ==
    /\ loopPc = "awaiting"
    /\ providerIndex \in active
    /\ active' = active \ {providerIndex}
    /\ outcomes' = Append(outcomes, outcome)
    /\ completed' = IF outcome = "complete" THEN completed + 1 ELSE completed
    /\ failed' = failed
    /\ loopPc' = IF outcome # "throws" /\ providerIndex < Len(incompleteProviders)
                 THEN "delay" ELSE "finished"
    /\ UNCHANGED <<providers, incompleteProviders, providerIndex, started>>
    /\ UNCHANGED <<driverVars, parserVars, rawFiles, sequentialVars, fetcherVars>>

\* the awaited call ends: the counters, the progress lines, and the test
\* for the wait before the next provider
ProviderEnds(outcome) ==
    /\ loopPc = "awaiting"
    /\ providerIndex \in active
    /\ active' = active \ {providerIndex}
    /\ outcomes' = Append(outcomes, outcome)
    /\ completed' = IF outcome = "complete" THEN completed + 1 ELSE completed
    /\ failed' = IF outcome = "throws" THEN failed + 1 ELSE failed
    /\ loopPc' = IF providerIndex < Len(incompleteProviders) THEN "delay"
                 ELSE "finished"
    /\ UNCHANGED <<providers, incompleteProviders, providerIndex, started>>
    /\ UNCHANGED <<driverVars, parserVars, rawFiles, sequentialVars, fetcherVars>>

\* await new Promise(resolve => setTimeout(resolve, 3000)); i++
DelayElapses ==
    /\ loopPc = "delay"
    /\ providerIndex' = providerIndex + 1
    /\ loopPc' = "loop"
    /\ UNCHANGED <<providers, incompleteProviders, active, completed, failed,
                   started, outcomes>>
    /\ UNCHANGED <<driverVars, parserVars, rawFiles, sequentialVars, fetcherVars>>

NextAll ==
    \/ ScanProviders
    \/ StartProvider
    \/ \E outcome \in RunOutcomes : ProviderEnds(outcome)
    \/ DelayElapses

SpecAll == InitAll /\ [][NextAll]_vars

\* the slugs of the incomplete providers the scan found
IncompleteSlugs ==
    {providers[k].slug : k \in {j \in 1..Len(providers) :
                                    providers[j].remainingGames > 0}}

\* provider.remainingGames of the scanned provider with this slug
RemainingOf(slug) ==
    providers[CHOOSE k \in 1..Len(providers) : providers[k].slug = slug]
        .remainingGames

\* C32: provider runs go strictly one after another: never two runs are
\* active, each incomplete provider is run exactly once, in ascending order
\* of remaining games, so no provider has two writers at once
ProvidersOneAtATime ==
    /\ Cardinality(active) <= 1
    /\ \A p \in IncompleteSlugs :
            Cardinality({r \in active : incompleteProviders[r].slug = p}) <= 1
    /\ Range(started) \subseteq IncompleteSlugs
    /\ \A a, b \in 1..Len(started) : a # b => started[a] # started[b]
    /\ \A a, b \in 1..Len(started) :
            a < b => RemainingOf(started[a]) <= RemainingOf(started[b])
    /\ loopPc = "finished" => Range(started) = IncompleteSlugs

\* the script went through several providers in another order than the
\* scan listed them
SortedRunsWitness ==
    /\ loopPc = "finished"
    /\ Len(started) >= 2
    /\ started[1] > started[2]

\* the number of runs that ended this way
RECURSIVE CountOutcome(_, _)
CountOutcome(seq, outcome) ==
    IF seq = <<>> THEN 0
    ELSE (IF Head(seq) = outcome THEN 1 ELSE 0) + CountOutcome(Tail(seq), outcome)

\* C33: a provider run that throws or ends partially complete does not
\* stop the loop: every incomplete provider is processed, completed +
\* failed is at most the number of providers processed, and completed
\* counts exactly the runs that returned success and isComplete
LoopSurvivesFailedRuns ==
    /\ completed = CountOutcome(outcomes, "complete")
    /\ completed + failed <= Len(outcomes)
    /\ Len(outcomes) <= Len(started)
    /\ loopPc = "finished" =>
            /\ Len(outcomes) = Len(incompleteProviders)
            /\ Len(started) = Len(incompleteProviders)

\* the first run threw, a later one ended partially complete, and the last
\* provider was still processed
FailedRunsWitness ==
    /\ loopPc = "finished"
    /\ Len(outcomes) = MaxProviders
    /\ outcomes[1] = "throws"
    /\ outcomes[2] = "partial"
    /\ outcomes[MaxProviders] = "complete"


\* ---------------------------------------------------------------------
\* the raw response files of a batch: each fetch writes one, and
\* executeSingleRequest reads the most recent one of the provider
\* ---------------------------------------------------------------------

\* the test provider, invoked once, nothing on disk
InitFiles ==
    /\ totalGames = TEST_TOTAL_GAMES
    /\ invocations = 1
    /\ env = NoFaults
    /\ InitLocals

\* graphql_fetcher.js, run for request i, writes its raw response file:
\* fs.writeFileSync(`stake_raw_response_${providerSlug}_${timestamp}.txt`)
FetcherWrites ==
    /\ pc = "fetching"
    /\ \E i \in DOMAIN requests :
        /\ requests[i].status = "pending"
        /\ children[i].process = "running"
        /\ Retries(tracker, requests[i].offset) <= FlakyBound
        /\ rawFiles' = Append(rawFiles, [offset |-> requests[i].offset,
                                         limit |-> requests[i].limit])
        /\ children' = [children EXCEPT ![i].process = "wrote"]
    /\ UNCHANGED <<totalGames, invocations, gamesFile, checkpointFile, clock,
                   run, pc, tracker, gamesByOffset, totalExistingGames,
                   requestCount, emptyResponseCount, offsets, requests, result,
                   persisted, before, env, saveFailed, emptyStreak>>
    /\ UNCHANGED <<parserVars, allProvidersVars, sequentialVars, fetcherVars>>

\* files.sort().reverse()[0]: the file with the latest timestamp
MostRecent(files) == files[Len(files)]

\* the close handler of request i with code 0: it reads the most recent
\* raw response file of the provider, parses it and resolves
CloseReadsResponse ==
    /\ pc = "fetching"
    /\ \E i \in DOMAIN requests :
        /\ requests[i].status = "pending"
        /\ children[i].process = "wrote"
        /\ rawFiles # <<>>
        /\ LET responseFile == MostRecent(rawFiles)
           IN  OnResolved(i, [success |-> TRUE,
                              games |-> Page(responseFile.offset,
                                             responseFile.limit)])
        /\ children' = [children EXCEPT ![i].process = "closed"]
    /\ UNCHANGED <<totalGames, invocations, gamesFile, checkpointFile, clock,
                   run, pc, gamesByOffset, totalExistingGames, requestCount,
                   offsets, result, persisted, before, env, saveFailed>>
    /\ UNCHANGED <<parserVars, scriptVars>>

NextFiles ==
    \/ StartRun
    \/ LoopStep
    \/ FetcherWrites
    \/ CloseReadsResponse
    \/ SettleRejected
    \/ ProcessResults

SpecFiles == InitFiles /\ [][NextFiles]_vars

\* C34: the records merged under offset o are the records the fetch for
\* (provider, o, limit) returned, however the sibling fetches of the batch
\* interleave
MergedUnderOwnOffset ==
    \A o \in DOMAIN gamesByOffset :
        \/ gamesByOffset[o] = <<>>
        \/ gamesByOffset[o] = Page(o, Min(GAMES_PER_REQUEST, totalGames - o))


\* ---------------------------------------------------------------------
\* enhanced_provider_completion.js: the sequential completeProvider
\* ---------------------------------------------------------------------

\* CONFIG.MAX_RETRIES of the sequential script
SEQUENTIAL_MAX_RETRIES == 6

\* the variables of the parallel driver that the sequential script has no
\* counterpart for
parallelOnlyVars == <<invocations, run, tracker, gamesByOffset,
                      totalExistingGames, emptyResponseCount, offsets,
                      requests, persisted, before, env, saveFailed,
                      emptyStreak, children>>

\* Math.ceil(a / b)
Ceil(a, b) == -((-a) \div b)

\* the checkpoint the scan read the provider from
ScannedCheckpoint(total, remaining) ==
    [NoCheckpointFile EXCEPT !.exists = TRUE,
                             !.total_games = total,
                             !.games_fetched = total - remaining,
                             !.needs_pagination = TRUE]

\* the games file of a provider whose first page was fetched earlier
FirstPageFile(total) ==
    [exists |-> TRUE, timestamp |-> 0, total_games |-> total,
     games_fetched |-> GAMES_PER_REQUEST,
     games |-> Page(0, GAMES_PER_REQUEST)]

\* a provider the scan found incomplete, with or without a first page on
\* disk; the checkpoint may disagree with the games file
InitSequential ==
    /\ totalGames = TEST_TOTAL_GAMES
    /\ remainingGames \in {1, TEST_TOTAL_GAMES - GAMES_PER_REQUEST}
    /\ gamesFile \in {NoGamesFile, FirstPageFile(TEST_TOTAL_GAMES)}
    /\ checkpointFile = ScannedCheckpoint(totalGames, remainingGames)
    /\ clock = 0
    /\ pc = "start"
    /\ requestCount = 0
    /\ result = NoResult
    /\ sequentialGames = <<>>
    /\ currentOffset = 0
    /\ attempt = 0
    /\ requested = -1
    /\ invocations = 0
    /\ run = 0
    /\ tracker = NewTracker
    /\ gamesByOffset = <<>>
    /\ totalExistingGames = 0
    /\ emptyResponseCount = 0
    /\ offsets = <<>>
    /\ requests = <<>>
    /\ persisted = Snapshot(NewTracker)
    /\ before = <<>>
    /\ env = NoFaults
    /\ saveFailed = FALSE
    /\ emptyStreak = 0
    /\ children = <<>>
    /\ ParserIdle
    /\ AllProvidersIdle
    /\ rawFiles = <<>>
    /\ FetcherIdle

\* loadExistingGames(provider)
loadExistingGames(file) == IF file.exists THEN file.games ELSE <<>>

\* the two files the sequential saveProviderData(provider, allGames,
\* currentOffset) writes at time `now`: the games file anew, and the
\* checkpoint it read with four of its fields replaced
SaveSequential(games, cp, now) ==
    [gamesFile |->
        [exists |-> TRUE, timestamp |-> now, total_games |-> totalGames,
         games_fetched |-> Len(games), games |-> games],
     checkpointFile |->
        IF cp.exists
        THEN [cp EXCEPT !.games_fetched = Len(games),
                        !.is_complete = Len(games) >= totalGames,
                        !.timestamp = now,
                        !.status = IF Len(games) >= totalGames
                                   THEN "completed" ELSE "in_progress"]
        ELSE cp]

\* the records the upstream holds at (offset, limit)
CatalogPage(offset, limit) ==
    IF offset >= totalGames THEN <<>>
    ELSE Page(offset, Min(limit, totalGames - offset))

\* the record lists executeSingleRequest can resolve with for (offset,
\* limit): the page of the catalog, its first record alone, its first
\* record twice, and the first page of the catalog again
SequentialResponses(offset, limit) ==
    LET page == CatalogPage(offset, limit)
    IN  ({page, Page(0, limit)}
         \cup (IF page = <<>> THEN {}
               ELSE {<<page[1]>>, <<page[1], page[1]>>}))
        \ {<<>>}

\* result.games.filter(g => !existingIds.has(g.id))
NewGames(games, held) ==
    LET existingIds == Range(held)
        IsNew(g) == g \notin existingIds
    IN  SelectSeq(games, IsNew)

\* a catch branch that never gives the offset up
AfterFailureNoSkip(att, offset) == [currentOffset |-> offset, success |-> FALSE]

\* the catch branch of an attempt: after the last attempt the offset is
\* skipped and the request counts as done
AfterFailure(att, offset) ==
    IF att = SEQUENTIAL_MAX_RETRIES
    THEN [currentOffset |-> offset + GAMES_PER_REQUEST, success |-> TRUE]
    ELSE [currentOffset |-> offset, success |-> FALSE]

\* the test of the outer loop with the games, the offset and the request
\* count at hand, at time `now`: either the head of the next iteration, or
\* the final save and the return
OuterLoop(games, offset, count, gf, cp, now) ==
    IF Len(games) < totalGames
       /\ ~(count > Ceil(remainingGames, GAMES_PER_REQUEST) * 2)
    THEN /\ requestCount' = count + 1
         /\ attempt' = 0
         /\ requested' = offset
         /\ pc' = "inner"
         /\ gamesFile' = gf
         /\ checkpointFile' = cp
         /\ clock' = now
         /\ UNCHANGED result
    ELSE LET w == SaveSequential(games, cp, now + 1)
         IN  /\ gamesFile' = w.gamesFile
             /\ checkpointFile' = w.checkpointFile
             /\ clock' = now + 1
             /\ result' = [success |-> TRUE, totalGames |-> Len(games),
                           requestsMade |-> count,
                           isComplete |-> Len(games) >= totalGames]
             /\ pc' = "done"
             /\ UNCHANGED <<requestCount, attempt, requested>>

\* completeProvider(provider) up to its first await
StartSequential ==
    /\ pc = "start"
    /\ sequentialGames' = loadExistingGames(gamesFile)
    /\ currentOffset' = Len(loadExistingGames(gamesFile))
    /\ OuterLoop(sequentialGames', currentOffset', 0, gamesFile,
                 checkpointFile, clock)
    /\ UNCHANGED <<totalGames, remainingGames>>
    /\ UNCHANGED <<parallelOnlyVars, parserVars, allProvidersVars, rawFiles,
                   fetcherVars>>

\* one attempt of the inner loop: the request settles, with a record list
\* or with a failure
AttemptRequest ==
    /\ pc = "inner"
    /\ attempt < SEQUENTIAL_MAX_RETRIES
    /\ attempt' = attempt + 1
    /\ LET gamesThisRequest ==
               Min(GAMES_PER_REQUEST, totalGames - Len(sequentialGames))
       IN  \/ \E games \in SequentialResponses(currentOffset, gamesThisRequest) :
                LET newGames == NewGames(games, sequentialGames)
                IN  IF Len(newGames) > 0
                    THEN LET w == SaveSequential(sequentialGames \o newGames,
                                                 checkpointFile, clock + 1)
                         IN  /\ sequentialGames' = sequentialGames \o newGames
                             /\ currentOffset' = currentOffset + Len(games)
                             /\ gamesFile' = w.gamesFile
                             /\ checkpointFile' = w.checkpointFile
                             /\ clock' = clock + 1
                             /\ pc' = "delay"
                    ELSE /\ currentOffset' = currentOffset + GAMES_PER_REQUEST
                         /\ pc' = "delay"
                         /\ UNCHANGED <<sequentialGames, gamesFile,
                                        checkpointFile, clock>>
           \/ LET f == AfterFailure(attempt', currentOffset)
              IN  /\ currentOffset' = f.currentOffset
                  /\ pc' = IF f.success \/ attempt' >= SEQUENTIAL_MAX_RETRIES
                           THEN "delay" ELSE "inner"
                  /\ UNCHANGED <<sequentialGames, gamesFile, checkpointFile,
                                 clock>>
    /\ UNCHANGED <<totalGames, remainingGames, requestCount, result, requested>>
    /\ UNCHANGED <<parallelOnlyVars, parserVars, allProvidersVars, rawFiles,
                   fetcherVars>>

\* the delay between requests, the safety check and the next test of the
\* outer loop
NextRequest ==
    /\ pc = "delay"
    /\ OuterLoop(sequentialGames, currentOffset, requestCount, gamesFile,
                 checkpointFile, clock)
    /\ UNCHANGED <<totalGames, remainingGames, sequentialGames, currentOffset>>
    /\ UNCHANGED <<parallelOnlyVars, parserVars, allProvidersVars, rawFiles,
                   fetcherVars>>

NextSequential == StartSequential \/ AttemptRequest \/ NextRequest

SpecSequential == InitSequential /\ [][NextSequential]_vars

\* every request settles and the timers fire
SpecSequentialLive ==
    InitSequential /\ [][NextSequential]_vars /\ WF_vars(NextSequential)

\* C35: the sequential completeProvider terminates: an offset is attempted
\* at most 6 times, after the 6th failure it is skipped by advancing
\* currentOffset by 39, currentOffset strictly increases from one outer
\* iteration to the next, and the outer loop runs at most
\* 2 * ceil(remainingGames / 39) + 1 times
SequentialTerminates ==
    /\ [](/\ attempt <= SEQUENTIAL_MAX_RETRIES
          /\ pc = "delay" => currentOffset > requested
          /\ requestCount <= 2 * Ceil(remainingGames, GAMES_PER_REQUEST) + 1)
    /\ [][requested' # requested => requested' > requested]_vars
    /\ [][(/\ pc = "inner"
           /\ attempt' = SEQUENTIAL_MAX_RETRIES
           /\ sequentialGames' = sequentialGames)
          => (/\ currentOffset' = currentOffset + GAMES_PER_REQUEST
              /\ pc' = "delay")]_vars
    /\ <>(pc = "done")

\* the run gave an offset up after six failed attempts, went on, and used
\* every request it was allowed
SkippedOffsetWitness ==
    /\ pc = "done"
    /\ attempt = SEQUENTIAL_MAX_RETRIES
    /\ Len(sequentialGames) < totalGames
    /\ requestCount = 2 * Ceil(remainingGames, GAMES_PER_REQUEST) + 1
    /\ requestCount > 1

\* C36: allGames never holds two records with the same id
SequentialIdsDistinct ==
    \A a, b \in 1..Len(sequentialGames) :
        a # b => sequentialGames[a] # sequentialGames[b]


\* ---------------------------------------------------------------------
\* the two fetch functions and their proxy sessions:
\* fetchProviderDataGraphQL (graphql_fetcher.js) and fetchGamesWithGraphQL
\* ---------------------------------------------------------------------

\* const maxRetries = 3, and the default of the parameter maxRetries
maxRetries == 3

Fetchers == {"fetchProviderDataGraphQL", "fetchGamesWithGraphQL"}

\* one of the two functions is called
InitFetch ==
    /\ DriverIdle
    /\ ParserIdle
    /\ AllProvidersIdle
    /\ rawFiles = <<>>
    /\ SequentialIdle
    /\ fetcher \in Fetchers
    /\ fetchAttempt = 1
    /\ session = <<>>
    /\ openSessions = {}
    /\ fetchPc = "create"

fetchUnchanged == <<driverVars, parserVars, allProvidersVars, rawFiles,
                    sequentialVars>>

\* session = await scrappey.createSession(...): it resolves or it throws
CreateSession ==
    /\ fetchPc = "create"
    /\ \/ /\ session' = <<fetchAttempt>>
          /\ openSessions' = openSessions \cup {fetchAttempt}
          /\ fetchPc' = "post"
       \/ /\ fetchPc' = "catch"
          /\ UNCHANGED <<session, openSessions>>
    /\ UNCHANGED <<fetcher, fetchAttempt>>
    /\ UNCHANGED fetchUnchanged

\* await scrappey.post(...) and the synchronous work on the response up to
\* the next await: the response is parsed and saved, or something throws
PostRequest ==
    /\ fetchPc = "post"
    /\ fetchPc' \in {"destroy", "catch"}
    /\ UNCHANGED <<fetcher, fetchAttempt, session, openSessions>>
    /\ UNCHANGED fetchUnchanged

\* await scrappey.destroySession(session.session) on the success path: it
\* resolves, or it throws, which fetchGamesWithGraphQL shrugs off and
\* fetchProviderDataGraphQL takes for a failed attempt
DestroyAndReturn ==
    /\ fetchPc = "destroy"
    /\ \/ /\ openSessions' = openSessions \ Range(session)
          /\ fetchPc' = "returned"
       \/ /\ UNCHANGED openSessions
          /\ fetchPc' = IF fetcher = "fetchGamesWithGraphQL" THEN "returned"
                        ELSE "catch"
    /\ UNCHANGED <<fetcher, fetchAttempt, session>>
    /\ UNCHANGED fetchUnchanged

\* the catch block: fetchGamesWithGraphQL tries to destroy the session it
\* holds and forgets it, fetchProviderDataGraphQL has no session in scope;
\* the last attempt rethrows, the others wait
HandleError ==
    /\ fetchPc = "catch"
    /\ IF fetcher = "fetchGamesWithGraphQL"
       THEN /\ openSessions' \in {openSessions \ Range(session), openSessions}
            /\ session' = <<>>
       ELSE /\ UNCHANGED openSessions
            /\ session' = <<>>
    /\ fetchPc' = IF fetchAttempt = maxRetries THEN "threw" ELSE "wait"
    /\ UNCHANGED <<fetcher, fetchAttempt>>
    /\ UNCHANGED fetchUnchanged

\* the wait before the retry ends; attempt++
RetryFetch ==
    /\ fetchPc = "wait"
    /\ fetchAttempt' = fetchAttempt + 1
    /\ fetchPc' = "create"
    /\ UNCHANGED <<fetcher, session, openSessions>>
    /\ UNCHANGED fetchUnchanged

NextFetch ==
    \/ CreateSession
    \/ PostRequest
    \/ DestroyAndReturn
    \/ HandleError
    \/ RetryFetch

SpecFetch == InitFetch /\ [][NextFetch]_vars

\* C37: each function makes at most 3 attempts, and every session an
\* attempt created is destroyed before the next attempt starts and before
\* the function returns or throws
SessionsDestroyed ==
    /\ fetchAttempt <= maxRetries
    /\ fetchPc \in {"create", "returned", "threw"} => openSessions = {}

====
